---- MODULE Spec2Model ----
(***************************************************************************)
(* Model of the cogtainer block container: the header, the footer (block   *)
(* descriptors and the empty_space list), the allocator, the block         *)
(* operations of ContainerFooter / Cogtainer, defragment and the           *)
(* InternalFile streaming view, over a byte-addressable file.              *)
(*                                                                         *)
(* The file is a pre-sized zeroed buffer (the tests create the container   *)
(* over Cursor::new(vec![0u8; N])).  file[o + 1] is the byte at offset o.  *)
(* A byte is a cell [i, k, v]:                                             *)
(*   k = "d": a payload byte of value v (i = 0);                           *)
(*   k = "c": byte i of the 8 bytes of a checksum;                         *)
(*   k = "f": byte i of a serialized footer.                               *)
(* The serializer (rmp_serde) and the hash (XxHash64) are external: the    *)
(* encoding is modelled as injective (byte i of the encoding of v), the    *)
(* hash as collision free (the seed and the bytes hashed).                 *)
(*                                                                         *)
(* A behaviour is a sequence of calls on a freshly created container;      *)
(* budget bounds its length.  defragment is followed iteration by          *)
(* iteration of its loop, every other call is one step.                    *)
(***************************************************************************)
EXTENDS Integers, Sequences, FiniteSets, TLC

VARIABLES
    file,                   \* Cogtainer.file: the underlying bytes
    pos,                    \* the stream position of Cogtainer.file
    header,                 \* Cogtainer.header (ContainerHeader)
    footer,                 \* Cogtainer.footer (ContainerFooter)
    overallocation_policy,  \* Cogtainer.overallocation_policy
    view,                   \* the InternalFile borrowed from the engine
    pc,                     \* "idle", or "defrag" inside defragment's loop
    iters,                  \* iterations of the running defragment loop
    last,                   \* "defragment" / "defragment failed" when that call
                            \* was the last to return, "call" after any other
    content,                \* per id: what the calls so far should have stored
    pre,                    \* what each block read as when defragment began;
                            \* the argument of the last call of calculate
    budget,                 \* the calls the behaviour may still make
    ret                     \* the number a call on the view or of calculate
                            \* returned, -1 otherwise

vars == <<file, pos, header, footer, overallocation_policy, view, pc, iters,
          last, content, pre, budget, ret>>

----------------------------------------------------------------------------
(* Bounds of the model *)

NumIds == 2
MaxLen == 1
MaxGrow == 3
MaxIters == 3
MaxCalls == 7
MaxAllocCalls == 6
MaxViewCalls == 7
MaxAllCalls == 4
MaxCrashCalls == 5
CursorBits == 3
WordBits == 16
FloatBits == 13

(* Program constants *)

HEADER_SIZE == 68
HASH_SEED == 4321

Ids == 1..NumIds
Metas == {"m1"}
MaxFooterOffset == HEADER_SIZE + MaxGrow
MaxFooterLength == 2 + NumIds + MaxGrow
FileSize == MaxFooterOffset + MaxFooterLength

Min(a, b) == IF a < b THEN a ELSE b
Max(a, b) == IF a > b THEN a ELSE b
SetMin(S) == CHOOSE x \in S : \A y \in S : x <= y

----------------------------------------------------------------------------
(* Bytes *)

Byte(b) == [i |-> 0, k |-> "d", v |-> b]
Zeros(n) == [j \in 1..n |-> Byte(0)]
\* payloads of one repeated byte, as the tests insert (vec![id as u8; n])
Payload(b, n) == [j \in 1..n |-> Byte(b)]
Payloads(id) == {Payload(id, n) : n \in 0..MaxLen}

\* writer.seek(SeekFrom::Start(off)); writer.write_all(bytes); a write behind
\* the end of the buffer fills the gap with zeros
WriteBytes(f, off, bytes) ==
    IF Len(bytes) = 0 THEN f
    ELSE LET g == IF off > Len(f) THEN f \o Zeros(off - Len(f)) ELSE f
         IN SubSeq(g, 1, off) \o bytes \o SubSeq(g, off + Len(bytes) + 1, Len(g))

\* reader.seek(SeekFrom::Start(off)); reader.read_exact(&mut buf[..n])
ReadBytes(f, off, n) == [j \in 1..n |-> f[off + j]]

calc_checksum(bytes) == [seed |-> HASH_SEED, of |-> bytes]
Checksum0 == [seed |-> 0, of |-> <<>>]

----------------------------------------------------------------------------
(* OverallocationPolicy *)

WordMax == 2 ^ WordBits - 1
\* u64::saturating_add
SatAdd(a, b) == IF a + b > WordMax THEN WordMax ELSE a + b
\* the operator + of u64 where it overflows: the build without overflow checks
\* wraps, the build with them panics
Overflows(a, b) == a + b > WordMax
WrapAdd(a, b) == (a + b) % (WordMax + 1)

\* `n as f64`: the nearest number with FloatBits significant bits, ties to even
RECURSIVE BitLen(_)
BitLen(n) == IF n = 0 THEN 0 ELSE 1 + BitLen(n \div 2)
ToFloat(n) ==
    IF BitLen(n) <= FloatBits THEN n
    ELSE LET unit == 2 ^ (BitLen(n) - FloatBits)
             q == n \div unit
             r == n % unit
             up == 2 * r > unit \/ (2 * r = unit /\ q % 2 = 1)
         IN (IF up THEN q + 1 ELSE q) * unit
\* `(x * pct).floor() as u64` for a percentage given in hundredths; the
\* percentages of the model are powers of two, whose product with x is exact;
\* the cast to u64 saturates
FloorCast(x, pct) == Min((x * pct) \div 100, WordMax)

PolicyNone == [kind |-> "None", b |-> 0, pct |-> 0]
PolicyBytes(n) == [kind |-> "Bytes", b |-> n, pct |-> 0]
PolicyPercentage(p) == [kind |-> "Percentage", b |-> 0, pct |-> p]
PolicyPercentageCapped(p, n) == [kind |-> "PercentageCapped", b |-> n, pct |-> p]
Policies == {PolicyNone, PolicyBytes(1)}

\* OverallocationPolicy::calculate as the build without overflow checks
\* computes it
calculate(policy, required_bytes) ==
    CASE policy.kind = "None" -> required_bytes
      [] policy.kind = "Bytes" -> WrapAdd(required_bytes, policy.b)
      [] policy.kind = "Percentage" ->
            SatAdd(required_bytes, FloorCast(ToFloat(required_bytes), policy.pct))
      [] policy.kind = "PercentageCapped" ->
            Min(SatAdd(required_bytes, FloorCast(ToFloat(required_bytes), policy.pct)),
                WrapAdd(required_bytes, policy.b))
\* the additions of calculate that overflow
calculate_overflows(policy, required_bytes) ==
    /\ policy.kind \in {"Bytes", "PercentageCapped"}
    /\ Overflows(required_bytes, policy.b)
\* what a call may do: return the wrapped sum, or panic where the build checks
\* for overflow
calculate_outcomes(policy, required_bytes) ==
    {[res |-> "calculate", value |-> calculate(policy, required_bytes)]}
    \cup (IF calculate_overflows(policy, required_bytes)
          THEN {[res |-> "calculate panicked", value |-> -1]}
          ELSE {})

----------------------------------------------------------------------------
(* Header and footer codecs *)

\* u64::to_le_bytes
RECURSIVE ShiftRight(_, _)
ShiftRight(n, bytes) == IF bytes = 0 THEN n ELSE ShiftRight(n \div 256, bytes - 1)
U64Le(n) == [j \in 1..8 |-> Byte(ShiftRight(n, j - 1) % 256)]
\* the 8 bytes of a checksum: the hash is not computed, byte 1 carries its input
ChecksumBytes(c) == [j \in 1..8 |-> [i |-> j, k |-> "c", v |-> IF j = 1 THEN c ELSE 0]]

\* ContainerHeader::write_to: the 68 bytes of the header
HeaderBytes(h) ==
    h.magic_number \o U64Le(h.version) \o U64Le(h.footer_offset)
        \o U64Le(h.footer_length) \o ChecksumBytes(h.footer_checksum)
        \o U64Le(h.reserved[1]) \o U64Le(h.reserved[2])
        \o U64Le(h.reserved[3]) \o U64Le(h.reserved[4])

\* rmp_serde::to_vec(&footer): one byte of framing, one per block, one per hole;
\* byte 1 carries the value encoded
FooterLength(ft) ==
    1 + Cardinality(DOMAIN ft.blocks) + Cardinality(DOMAIN ft.empty_space)
Serialize(ft) ==
    [j \in 1..FooterLength(ft) |-> [i |-> j, k |-> "f", v |-> IF j = 1 THEN <<ft>> ELSE <<>>]]

\* ContainerFooter::write_to on the engine state st
write_to(st) ==
    LET bytes == Serialize(st.footer)
        h == [st.header EXCEPT !.footer_length = Len(bytes),
                               !.footer_checksum = calc_checksum(bytes)]
        f1 == WriteBytes(st.file, st.header.footer_offset, bytes)
    IN [st EXCEPT !.header = h, !.file = WriteBytes(f1, 0, HeaderBytes(h))]

----------------------------------------------------------------------------
(* Free-space tracker and allocator *)

MapPut(m, key, val) == [o \in DOMAIN m \cup {key} |-> IF o = key THEN val ELSE m[o]]
MapDel(m, key) == [o \in DOMAIN m \ {key} |-> m[o]]

RECURSIVE SortedSeq(_)
SortedSeq(S) == IF S = {} THEN <<>> ELSE <<SetMin(S)>> \o SortedSeq(S \ {SetMin(S)})

\* the inner while of consolidate_empty_space: absorb the holes that start
\* exactly where the current one ends
RECURSIVE Absorb(_, _, _, _)
Absorb(es, keys, off, len) ==
    IF keys # <<>> /\ off + len = Head(keys)
    THEN Absorb(es, Tail(keys), off, len + es[Head(keys)])
    ELSE <<len, keys>>

RECURSIVE MergeHoles(_, _)
MergeHoles(es, keys) ==
    IF keys = <<>> THEN <<>>
    ELSE LET a == Absorb(es, Tail(keys), Head(keys), es[Head(keys)])
         IN <<<<Head(keys), a[1]>>>> \o MergeHoles(es, a[2])

consolidate_empty_space(es) ==
    LET merged == MergeHoles(es, SortedSeq(DOMAIN es))
    IN [o \in {merged[j][1] : j \in 1..Len(merged)} |->
            (CHOOSE p \in {merged[j] : j \in 1..Len(merged)} : p[1] = o)[2]]

\* a variant of reserve_space that applies the overallocation policy inside a
\* hole too, as far as the hole allows
reserve_space_overallocating_holes(st, required_length, policy) ==
    LET es == st.footer.empty_space
        fits == {o \in DOMAIN es : es[o] >= required_length}
    IN IF fits # {}
       THEN LET offset == SetMin(fits)
                taken == Min(calculate(policy, required_length), es[offset])
                left_over == es[offset] - taken
                es1 == MapDel(es, offset)
                es2 == IF left_over > 0
                       THEN MapPut(es1, offset + taken, left_over)
                       ELSE es1
            IN [st |-> [st EXCEPT !.footer.empty_space = es2],
                offset |-> offset, len |-> taken]
       ELSE LET offset == st.header.footer_offset
                len == calculate(policy, required_length)
            IN [st |-> [st EXCEPT !.header.footer_offset = offset + len],
                offset |-> offset, len |-> len]

\* a variant of reserve_space that moves the footer by the bytes required,
\* not by the bytes allocated
reserve_space_short_advance(st, required_length, policy) ==
    LET es == st.footer.empty_space
        fits == {o \in DOMAIN es : es[o] >= required_length}
    IN IF fits # {}
       THEN LET offset == SetMin(fits)
                left_over == es[offset] - required_length
                es1 == MapDel(es, offset)
                es2 == IF left_over > 0
                       THEN MapPut(es1, offset + required_length, left_over)
                       ELSE es1
            IN [st |-> [st EXCEPT !.footer.empty_space = es2],
                offset |-> offset, len |-> required_length]
       ELSE LET offset == st.header.footer_offset
                len == calculate(policy, required_length)
            IN [st |-> [st EXCEPT !.header.footer_offset = offset + required_length],
                offset |-> offset, len |-> len]

\* ContainerFooter::reserve_space on the engine state st
reserve_space(st, required_length, policy) ==
    LET es == st.footer.empty_space
        fits == {o \in DOMAIN es : es[o] >= required_length}
    IN IF fits # {}
       THEN LET offset == SetMin(fits)
                left_over == es[offset] - required_length
                es1 == MapDel(es, offset)
                es2 == IF left_over > 0
                       THEN MapPut(es1, offset + required_length, left_over)
                       ELSE es1
            IN [st |-> [st EXCEPT !.footer.empty_space = es2],
                offset |-> offset, len |-> required_length]
       ELSE LET offset == st.header.footer_offset
                len == calculate(policy, required_length)
            IN [st |-> [st EXCEPT !.header.footer_offset = offset + len],
                offset |-> offset, len |-> len]

----------------------------------------------------------------------------
(* Block operations of ContainerFooter.  st is the engine state            *)
(* [file, pos, header, footer]; every operation returns the new state.     *)

Descriptor(off, used, alloc, sum, meta) ==
    [file_offset |-> off, used_length |-> used, allocated_length |-> alloc,
     checksum |-> sum, metadata |-> meta]

Has(st, id) == id \in DOMAIN st.footer.blocks

\* "always remove the old block": the descriptor is removed and, when it had
\* an allocation, its extent is given to empty_space, which is consolidated
remove_old_block(st, id) ==
    IF Has(st, id)
    THEN LET d == st.footer.blocks[id]
             es == IF d.allocated_length > 0
                   THEN consolidate_empty_space(
                            MapPut(st.footer.empty_space, d.file_offset, d.allocated_length))
                   ELSE st.footer.empty_space
         IN [st EXCEPT !.footer.blocks = MapDel(@, id), !.footer.empty_space = es]
    ELSE st

\* ContainerFooter::insert_block up to its footer write: the descriptor is
\* replaced and the payload and its zeroed tail have reached the file
insert_block_data(st, policy, id, metadata, data) ==
    LET checksum == calc_checksum(data)
        s1 == remove_old_block(st, id)
        s2 == IF Len(data) > 0
              THEN LET r == reserve_space(s1, Len(data), policy)
                       f1 == WriteBytes(r.st.file, r.offset, data)
                       f2 == IF Len(data) < r.len
                             THEN WriteBytes(f1, r.offset + Len(data), Zeros(r.len - Len(data)))
                             ELSE f1
                   IN [r.st EXCEPT
                         !.footer.blocks =
                            MapPut(@, id, Descriptor(r.offset, Len(data), r.len, checksum, metadata)),
                         !.file = f2,
                         !.pos = r.offset + r.len]
              ELSE [s1 EXCEPT !.footer.blocks =
                                 MapPut(@, id, Descriptor(0, 0, 0, checksum, metadata))]
    IN s2

\* ContainerFooter::insert_block: the footer write (which also writes the
\* header) ends it
insert_block(st, policy, id, metadata, data) ==
    write_to(insert_block_data(st, policy, id, metadata, data))

\* ContainerFooter::insert_block_at; returns the state (the call returns data.len())
insert_block_at(st, policy, id, offset, data) ==
    LET checksum == calc_checksum(data)
        old_used_size == IF Has(st, id) THEN st.footer.blocks[id].used_length ELSE 0
        metadata == IF Has(st, id) THEN st.footer.blocks[id].metadata ELSE "Nil"
        s1 == remove_old_block(st, id)
        new_used_size == Max(old_used_size, offset + Len(data))
        s2 == IF new_used_size > 0
              THEN LET r == reserve_space(s1, new_used_size, policy)
                       f1 == WriteBytes(r.st.file, r.offset + offset, data)
                       f2 == IF new_used_size < r.len
                             THEN WriteBytes(f1, r.offset + offset + Len(data),
                                             Zeros(r.len - new_used_size))
                             ELSE f1
                   IN [r.st EXCEPT
                         !.footer.blocks =
                            MapPut(@, id, Descriptor(r.offset, new_used_size, r.len, checksum, metadata)),
                         !.file = f2,
                         !.pos = r.offset + offset + Len(data)
                                    + (IF new_used_size < r.len THEN r.len - new_used_size ELSE 0)]
              ELSE [s1 EXCEPT !.footer.blocks =
                                 MapPut(@, id, Descriptor(0, 0, 0, checksum, metadata))]
    IN write_to(s2)

\* ContainerFooter::update_block_metadata
update_block_metadata(st, id, metadata) ==
    write_to([st EXCEPT !.footer.blocks =
                 IF Has(st, id)
                 THEN [@ EXCEPT ![id].metadata = metadata]
                 ELSE MapPut(@, id, Descriptor(0, 0, 0, Checksum0, metadata))])

\* a variant of delete_block that takes a missing id for a block without
\* allocation
delete_block_missing_as_empty(st, id) ==
    LET d == IF Has(st, id) THEN st.footer.blocks[id]
             ELSE Descriptor(0, 0, 0, Checksum0, "Nil")
    IN [res |-> "Ok",
        st |-> [st EXCEPT
                  !.footer.blocks = MapDel(@, id),
                  !.footer.empty_space =
                     consolidate_empty_space(MapPut(@, d.file_offset, d.allocated_length))]]

\* ContainerFooter::delete_block
delete_block(st, id) ==
    IF Has(st, id)
    THEN LET d == st.footer.blocks[id]
         IN [res |-> "Ok",
             st |-> [st EXCEPT
                       !.footer.blocks = MapDel(@, id),
                       !.footer.empty_space =
                          consolidate_empty_space(MapPut(@, d.file_offset, d.allocated_length))]]
    ELSE [res |-> "BlockNotFound", st |-> st]

\* a variant of get_block that does not compare the checksum
get_block_unverified(st, id) ==
    IF ~Has(st, id)
    THEN [res |-> "BlockNotFound", metadata |-> "Nil", bytes |-> <<>>, pos |-> st.pos]
    ELSE LET d == st.footer.blocks[id]
             bytes == ReadBytes(st.file, d.file_offset, d.used_length)
         IN IF d.allocated_length = 0
            THEN [res |-> "Ok", metadata |-> d.metadata, bytes |-> <<>>, pos |-> st.pos]
            ELSE [res |-> "Ok", metadata |-> d.metadata, bytes |-> bytes,
                  pos |-> d.file_offset + d.used_length]

\* ContainerFooter::get_block: the result, and the stream position it leaves
get_block(st, id) ==
    IF ~Has(st, id)
    THEN [res |-> "BlockNotFound", metadata |-> "Nil", bytes |-> <<>>, pos |-> st.pos]
    ELSE LET d == st.footer.blocks[id]
             bytes == ReadBytes(st.file, d.file_offset, d.used_length)
         IN IF d.allocated_length = 0
            THEN [res |-> "Ok", metadata |-> d.metadata, bytes |-> <<>>, pos |-> st.pos]
            ELSE IF calc_checksum(bytes) # d.checksum
            THEN [res |-> "BlockChecksumError", metadata |-> "Nil", bytes |-> <<>>,
                  pos |-> d.file_offset + d.used_length]
            ELSE [res |-> "Ok", metadata |-> d.metadata, bytes |-> bytes,
                  pos |-> d.file_offset + d.used_length]

\* what read(id) answers: get_block without the stream position
read(st, id) ==
    LET g == get_block(st, id)
    IN [res |-> g.res, metadata |-> g.metadata, bytes |-> g.bytes]

\* ContainerFooter::grow_block: the value returned and the new state
grow_block(st, policy, id, minimum_size) ==
    LET min_size == calculate(policy, minimum_size)
    IN IF Has(st, id) /\ st.footer.blocks[id].allocated_length >= min_size
       THEN [ret |-> st.footer.blocks[id].allocated_length, st |-> st]
       ELSE
         LET g == get_block(st, id)
             metadata == IF g.res = "Ok" THEN g.metadata ELSE "Nil"
             data == IF g.res = "Ok" THEN g.bytes ELSE <<>>
             checksum == calc_checksum(data)
             s1 == remove_old_block([st EXCEPT !.pos = g.pos], id)
             r == reserve_space(s1, min_size, PolicyNone)
             \* the data is written at the new offset; with no data there is no seek
             p1 == IF Len(data) > 0 THEN r.offset + Len(data) ELSE s1.pos
             f1 == IF Len(data) > 0 THEN WriteBytes(r.st.file, r.offset, data) ELSE r.st.file
             \* the zeros follow at the current stream position
             nz == IF Len(data) < r.len THEN r.len - Len(data) ELSE 0
             s2 == [r.st EXCEPT
                      !.footer.blocks =
                         MapPut(@, id, Descriptor(r.offset, Len(data), r.len, checksum, metadata)),
                      !.file = WriteBytes(f1, p1, Zeros(nz)),
                      !.pos = p1 + nz]
         IN [ret |-> r.len, st |-> write_to(s2)]

----------------------------------------------------------------------------
(* Reading a container back: ContainerHeader::read_from,                   *)
(* ContainerFooter::read_from, Cogtainer::open                             *)

\* b"DCCF"
DCCF_MAGIC == <<Byte(68), Byte(67), Byte(67), Byte(70)>>

IsData(bytes) == \A j \in 1..Len(bytes) : bytes[j].k = "d"

\* u64::from_le_bytes of 8 payload bytes
RECURSIVE FromLe(_, _)
FromLe(bytes, j) == IF j > Len(bytes) THEN 0 ELSE bytes[j].v + 256 * FromLe(bytes, j + 1)

\* the checksum whose 8 bytes these are; any other 8 bytes are the bytes of
\* some other hash value
ReadChecksum(bytes) ==
    IF \E c \in {bytes[1].v} : bytes[1].k = "c" /\ bytes = ChecksumBytes(c)
    THEN bytes[1].v
    ELSE [seed |-> -1, of |-> bytes]

\* ContainerHeader::read_from
header_read_from(f) ==
    LET magic_number == ReadBytes(f, 0, 4)
        numbers == ReadBytes(f, 4, 24) \o ReadBytes(f, 36, 32)
    IN IF magic_number # DCCF_MAGIC THEN [res |-> "InvalidHeader", kind |-> "Magic"]
       ELSE IF ~IsData(numbers) THEN [res |-> "Unreadable"]
       ELSE [res |-> "Ok",
             header |-> [magic_number |-> DCCF_MAGIC,
                         version |-> FromLe(ReadBytes(f, 4, 8), 1),
                         footer_offset |-> FromLe(ReadBytes(f, 12, 8), 1),
                         footer_length |-> FromLe(ReadBytes(f, 20, 8), 1),
                         footer_checksum |-> ReadChecksum(ReadBytes(f, 28, 8)),
                         reserved |-> <<FromLe(ReadBytes(f, 36, 8), 1),
                                        FromLe(ReadBytes(f, 44, 8), 1),
                                        FromLe(ReadBytes(f, 52, 8), 1),
                                        FromLe(ReadBytes(f, 60, 8), 1)>>]]

\* a variant of ContainerFooter::read_from that decodes without comparing the
\* checksum
footer_read_from_unchecked(f, h) ==
    IF h.footer_offset + h.footer_length > Len(f) THEN [res |-> "IOError"]
    ELSE LET footer_bytes == ReadBytes(f, h.footer_offset, h.footer_length)
         IN IF footer_bytes = <<>> \/ footer_bytes[1].k # "f" THEN [res |-> "DecodeError"]
            ELSE [res |-> "Ok", footer |-> footer_bytes[1].v[1]]

\* ContainerFooter::read_from: the bytes that hash to the header's checksum are
\* the serialization of the footer carried by the first of them
footer_read_from(f, h) ==
    IF h.footer_offset + h.footer_length > Len(f) THEN [res |-> "IOError"]
    ELSE LET footer_bytes == ReadBytes(f, h.footer_offset, h.footer_length)
         IN IF calc_checksum(footer_bytes) # h.footer_checksum
            THEN [res |-> "FooterChecksumError"]
            ELSE IF footer_bytes = <<>> THEN [res |-> "DecodeError"]
            ELSE [res |-> "Ok", footer |-> footer_bytes[1].v[1]]

\* Cogtainer::open on the bytes f
open(f) ==
    LET h == header_read_from(f)
    IN IF h.res # "Ok" THEN h
       ELSE LET ft == footer_read_from(f, h.header)
            IN IF ft.res # "Ok" THEN [res |-> ft.res]
               ELSE [res |-> "Ok",
                     st |-> [file |-> f, pos |-> h.header.footer_offset + h.header.footer_length,
                             header |-> h.header, footer |-> ft.footer]]

----------------------------------------------------------------------------
(* The engine: Cogtainer *)

EmptyMap == <<>>
NoView == [open |-> FALSE, id |-> 0, cursor |-> 0]
Absent == [present |-> FALSE, metadata |-> "Nil", bytes |-> <<>>]
Stored(m, b) == [present |-> TRUE, metadata |-> m, bytes |-> b]

St == [file |-> file, pos |-> pos, header |-> header, footer |-> footer]

Commit(s) ==
    /\ file' = s.file
    /\ pos' = s.pos
    /\ header' = s.header
    /\ footer' = s.footer

Idle == pc = "idle" /\ ~view.open

\* a call of the API by the user of the engine
Call ==
    /\ Idle
    /\ budget > 0
    /\ budget' = budget - 1
    /\ last' = "call"
    /\ pre' = EmptyMap
    /\ ret' = -1
    /\ UNCHANGED <<view, pc, iters>>

\* ContainerHeader::create over the zeroed file, then ContainerFooter::create
Created ==
    write_to([file |-> [j \in 1..FileSize |-> Byte(0)],
              pos |-> 0,
              header |-> [magic_number |-> DCCF_MAGIC, version |-> 1,
                          footer_offset |-> HEADER_SIZE, footer_length |-> 0,
                          footer_checksum |-> Checksum0, reserved |-> <<0, 0, 0, 0>>],
              footer |-> [metadata |-> "Nil", blocks |-> EmptyMap,
                          empty_space |-> EmptyMap]])

\* Cogtainer::create
create(calls) ==
    /\ file = Created.file
    /\ pos = Created.pos
    /\ header = Created.header
    /\ footer = Created.footer
    /\ overallocation_policy = PolicyNone
    /\ view = NoView
    /\ pc = "idle"
    /\ iters = 0
    /\ last = "call"
    /\ content = [id \in Ids |-> Absent]
    /\ pre = EmptyMap
    /\ budget = calls
    /\ ret = -1

Init == create(MaxCalls)

RECURSIVE Sum(_, _)
Sum(f, S) == IF S = {} THEN 0
             ELSE LET x == CHOOSE y \in S : TRUE IN f[x] + Sum(f, S \ {x})
TotalAllocated(st) ==
    Sum([id \in DOMAIN st.footer.blocks |-> st.footer.blocks[id].allocated_length],
        DOMAIN st.footer.blocks)
TotalEmpty(st) == Sum(st.footer.empty_space, DOMAIN st.footer.empty_space)

\* the model follows the file up to MaxFooterOffset, and MaxGrow bytes of
\* block allocations and holes
InBounds(s) ==
    /\ s.header.footer_offset <= MaxFooterOffset
    /\ TotalAllocated(s) + TotalEmpty(s) <= MaxGrow

\* Cogtainer::insert_block
InsertBlock(id, metadata, data) ==
    /\ Call
    /\ \E s \in {insert_block(St, overallocation_policy, id, metadata, data)} :
          /\ InBounds(s)
          /\ Commit(s)
    /\ content' = [content EXCEPT ![id] = Stored(metadata, data)]
    /\ UNCHANGED overallocation_policy

\* Cogtainer::delete_block
DeleteBlock(id) ==
    /\ Call
    /\ \E r \in {delete_block(St, id)} :
          /\ Commit(r.st)
          /\ content' = IF r.res = "Ok" THEN [content EXCEPT ![id] = Absent] ELSE content
    /\ UNCHANGED overallocation_policy

\* Cogtainer::flush (file.flush() keeps the bytes)
flush(st) == write_to(st)

Flush ==
    /\ Call
    /\ \E s \in {flush(St)} : Commit(s)
    /\ UNCHANGED <<overallocation_policy, content>>

\* Cogtainer::set_metadata
SetMetadata(value) ==
    /\ Call
    /\ \E s \in {flush([St EXCEPT !.footer.metadata = value])} : Commit(s)
    /\ UNCHANGED <<overallocation_policy, content>>

\* Cogtainer::set_overallocation_policy
SetOverallocationPolicy(policy) ==
    /\ Call
    /\ policy # overallocation_policy
    /\ overallocation_policy' = policy
    /\ UNCHANGED <<file, pos, header, footer, content>>

\* Cogtainer::get_block
GetBlock(id) ==
    /\ Call
    /\ pos' = get_block(St, id).pos
    /\ UNCHANGED <<file, header, footer, overallocation_policy, content>>

\* the bytes a write of data at offset should leave in a block that held old
Overlay(old, offset, data) ==
    [j \in 1..Max(Len(old), offset + Len(data)) |->
        IF j > offset /\ j <= offset + Len(data) THEN data[j - offset]
        ELSE IF j <= Len(old) THEN old[j]
        ELSE Byte(0)]

\* ContainerFooter::insert_block_at on the engine's file, header and policy
InsertBlockAt(id, offset, data) ==
    /\ Call
    /\ \E s \in {insert_block_at(St, overallocation_policy, id, offset, data)} :
          /\ InBounds(s)
          /\ Commit(s)
    /\ content' = [content EXCEPT
                     ![id] = Stored(@.metadata, Overlay(@.bytes, offset, data))]
    /\ UNCHANGED overallocation_policy

\* ContainerFooter::grow_block on the engine's file, header and policy
GrowBlock(id, minimum_size) ==
    /\ Call
    /\ \E r \in {grow_block(St, overallocation_policy, id, minimum_size)} :
          /\ InBounds(r.st)
          /\ Commit(r.st)
    /\ content' = [content EXCEPT ![id] = Stored(@.metadata, @.bytes)]
    /\ UNCHANGED overallocation_policy

\* ContainerFooter::update_block_metadata on the engine's file and header
UpdateBlockMetadata(id, metadata) ==
    /\ Call
    /\ \E s \in {update_block_metadata(St, id, metadata)} : Commit(s)
    /\ content' = [content EXCEPT ![id] = Stored(metadata, @.bytes)]
    /\ UNCHANGED overallocation_policy

----------------------------------------------------------------------------
(* The streaming view: InternalFile.  A view borrows the engine            *)
(* exclusively: while it is open the engine's other calls cannot be made.  *)
(* The cursor is a u64 and a seek offset an i64; the model keeps           *)
(* CursorBits bits of them.                                                *)

CursorWrap == 2 ^ CursorBits
CursorMax == CursorWrap - 1

\* InternalFile::seek: the result and the cursor it leaves
view_seek(st, v, whence, p) ==
    CASE whence = "Start" -> [res |-> "Ok", cursor |-> p]
      [] whence = "End" ->
            IF ~Has(st, v.id) THEN [res |-> "NotFound", cursor |-> v.cursor]
            ELSE LET new_pos == st.footer.blocks[v.id].used_length + p
                 IN IF new_pos < 0 THEN [res |-> "InvalidInput", cursor |-> v.cursor]
                    ELSE [res |-> "Ok", cursor |-> new_pos % CursorWrap]
      [] whence = "Current" ->
            LET new_pos == v.cursor + p
            IN IF new_pos < 0 THEN [res |-> "InvalidInput", cursor |-> v.cursor]
               ELSE [res |-> "Ok", cursor |-> new_pos % CursorWrap]

\* a variant of get_block_slice that fills the whole buffer whatever is left
\* of the payload
get_block_slice_whole_buffer(st, id, start, n) ==
    IF ~Has(st, id)
    THEN [res |-> "BlockNotFound", len |-> 0, bytes |-> <<>>, pos |-> st.pos]
    ELSE LET d == st.footer.blocks[id]
         IN IF d.allocated_length = 0 \/ start >= d.used_length
            THEN [res |-> "Ok", len |-> 0, bytes |-> <<>>, pos |-> st.pos]
            ELSE [res |-> "Ok", len |-> n,
                  bytes |-> ReadBytes(st.file, d.file_offset + start, n),
                  pos |-> d.file_offset + start + n]

\* a variant of get_block_slice that hashes the payload and compares it with
\* the stored checksum, as get_block does
get_block_slice_verifying(st, id, start, n) ==
    IF ~Has(st, id)
    THEN [res |-> "BlockNotFound", len |-> 0, bytes |-> <<>>, pos |-> st.pos]
    ELSE LET d == st.footer.blocks[id]
             read_length == Min(d.used_length - start, n)
         IN IF d.allocated_length = 0 \/ start >= d.used_length
            THEN [res |-> "Ok", len |-> 0, bytes |-> <<>>, pos |-> st.pos]
            ELSE IF calc_checksum(ReadBytes(st.file, d.file_offset, d.used_length)) # d.checksum
            THEN [res |-> "BlockChecksumError", len |-> 0, bytes |-> <<>>,
                  pos |-> d.file_offset + d.used_length]
            ELSE [res |-> "Ok", len |-> read_length,
                  bytes |-> ReadBytes(st.file, d.file_offset + start, read_length),
                  pos |-> d.file_offset + start + read_length]

\* ContainerFooter::get_block_slice into a buffer of n bytes
get_block_slice(st, id, start, n) ==
    IF ~Has(st, id)
    THEN [res |-> "BlockNotFound", len |-> 0, bytes |-> <<>>, pos |-> st.pos]
    ELSE LET d == st.footer.blocks[id]
             read_length == Min(d.used_length - start, n)
         IN IF d.allocated_length = 0 \/ start >= d.used_length
            THEN [res |-> "Ok", len |-> 0, bytes |-> <<>>, pos |-> st.pos]
            ELSE [res |-> "Ok", len |-> read_length,
                  bytes |-> ReadBytes(st.file, d.file_offset + start, read_length),
                  pos |-> d.file_offset + start + read_length]

\* a variant of InternalFile::read that answers end of file for a block that
\* does not exist
view_read_missing_is_eof(st, v, n) ==
    LET g == get_block_slice(st, v.id, v.cursor, n)
    IN IF g.res # "Ok"
       THEN [res |-> "Ok", len |-> 0, bytes |-> <<>>, pos |-> g.pos, cursor |-> v.cursor]
       ELSE IF v.cursor + g.len > CursorMax
       THEN [res |-> "InvalidInput", len |-> 0, bytes |-> <<>>, pos |-> g.pos,
             cursor |-> v.cursor]
       ELSE [res |-> "Ok", len |-> g.len, bytes |-> g.bytes, pos |-> g.pos,
             cursor |-> v.cursor + g.len]

\* InternalFile::read into a buffer of n bytes
view_read(st, v, n) ==
    LET g == get_block_slice(st, v.id, v.cursor, n)
    IN IF g.res # "Ok"
       THEN [res |-> "NotFound", len |-> 0, bytes |-> <<>>, pos |-> g.pos, cursor |-> v.cursor]
       ELSE IF v.cursor + g.len > CursorMax
       THEN [res |-> "InvalidInput", len |-> 0, bytes |-> <<>>, pos |-> g.pos,
             cursor |-> v.cursor]
       ELSE [res |-> "Ok", len |-> g.len, bytes |-> g.bytes, pos |-> g.pos,
             cursor |-> v.cursor + g.len]

\* the buffer the rebuild makes: the old payload, zeros up to new_used, buf at cursor
new_data(old_data, new_used, cursor, buf) ==
    [j \in 1..new_used |->
        IF j > cursor /\ j <= cursor + Len(buf) THEN buf[j - cursor]
        ELSE IF j <= Len(old_data) THEN old_data[j]
        ELSE Byte(0)]

WriteFailed(st, v) == [res |-> "InvalidInput", path |-> "write failed", st |-> st,
                       cursor |-> v.cursor]

\* InternalFile::write on a block that does not exist yet
write_missing(st, policy, v, buf) ==
    [res |-> "Ok", path |-> "write rebuild",
     st |-> insert_block(st, policy, v.id, "Nil",
                         new_data(<<>>, v.cursor + Len(buf), v.cursor, buf)),
     cursor |-> Min(v.cursor + Len(buf), CursorMax)]

\* a variant of the in-place path that commits the descriptor without its
\* metadata
write_in_place_nil_metadata(st, v, buf) ==
    LET desc == st.footer.blocks[v.id]
        end_pos == v.cursor + Len(buf)
        f1 == IF v.cursor > desc.used_length
              THEN WriteBytes(st.file, desc.file_offset + desc.used_length,
                              Zeros(v.cursor - desc.used_length))
              ELSE st.file
        f2 == WriteBytes(f1, desc.file_offset + v.cursor, buf)
        new_used == Max(desc.used_length, end_pos)
        checksum == calc_checksum(ReadBytes(f2, desc.file_offset, new_used))
    IN [res |-> "Ok", path |-> "write in place",
        st |-> write_to([st EXCEPT
                           !.file = f2,
                           !.pos = desc.file_offset + new_used,
                           !.footer.blocks[v.id] =
                              Descriptor(desc.file_offset, new_used, desc.allocated_length,
                                         checksum, "Nil")]),
        cursor |-> end_pos]

\* InternalFile::write, the in-place path: zero the gap, write buf, hash the
\* used bytes of the file, commit the descriptor and the footer
write_in_place(st, v, buf) ==
    LET desc == st.footer.blocks[v.id]
        end_pos == v.cursor + Len(buf)
        f1 == IF v.cursor > desc.used_length
              THEN WriteBytes(st.file, desc.file_offset + desc.used_length,
                              Zeros(v.cursor - desc.used_length))
              ELSE st.file
        f2 == WriteBytes(f1, desc.file_offset + v.cursor, buf)
        new_used == Max(desc.used_length, end_pos)
        checksum == calc_checksum(ReadBytes(f2, desc.file_offset, new_used))
    IN [res |-> "Ok", path |-> "write in place",
        st |-> write_to([st EXCEPT
                           !.file = f2,
                           !.pos = desc.file_offset + new_used,
                           !.footer.blocks[v.id].used_length = new_used,
                           !.footer.blocks[v.id].checksum = checksum]),
        cursor |-> end_pos]

\* InternalFile::write, the rebuild path of an existing block
write_rebuild(st, policy, v, buf) ==
    LET desc == st.footer.blocks[v.id]
        g == get_block(st, v.id)
        new_used == Max(desc.used_length, v.cursor + Len(buf))
    IN IF g.res # "Ok" THEN WriteFailed([st EXCEPT !.pos = g.pos], v)
       ELSE [res |-> "Ok", path |-> "write rebuild",
             st |-> insert_block([st EXCEPT !.pos = g.pos], policy, v.id, g.metadata,
                                 new_data(g.bytes, new_used, v.cursor, buf)),
             cursor |-> v.cursor + Len(buf)]

\* a variant of fits_in_alloc that lets the write end one byte behind the
\* allocation
fits_in_alloc_off_by_one(st, v, buf) ==
    /\ Has(st, v.id)
    /\ v.cursor + Len(buf) <= st.footer.blocks[v.id].allocated_length + 1
    /\ st.footer.blocks[v.id].allocated_length > 0

fits_in_alloc(st, v, buf) ==
    /\ Has(st, v.id)
    /\ v.cursor + Len(buf) <= st.footer.blocks[v.id].allocated_length
    /\ st.footer.blocks[v.id].allocated_length > 0

\* a variant of InternalFile::write without the fast path of the empty buffer
view_write_no_fast_path(st, policy, v, buf) ==
    IF v.cursor + Len(buf) > CursorMax THEN WriteFailed(st, v)
    ELSE IF ~Has(st, v.id) THEN write_missing(st, policy, v, buf)
    ELSE IF fits_in_alloc(st, v, buf) THEN write_in_place(st, v, buf)
    ELSE write_rebuild(st, policy, v, buf)

\* InternalFile::write
view_write(st, policy, v, buf) ==
    IF buf = <<>> THEN [res |-> "Ok", path |-> "write empty", st |-> st, cursor |-> v.cursor]
    ELSE IF v.cursor + Len(buf) > CursorMax THEN WriteFailed(st, v)
    ELSE IF ~Has(st, v.id) THEN write_missing(st, policy, v, buf)
    ELSE IF fits_in_alloc(st, v, buf) THEN write_in_place(st, v, buf)
    ELSE write_rebuild(st, policy, v, buf)

\* a call on the open view
ViewCall ==
    /\ pc = "idle"
    /\ view.open
    /\ budget > 0
    /\ budget' = budget - 1
    /\ pre' = EmptyMap
    /\ UNCHANGED <<overallocation_policy, pc, iters>>

\* InternalFile::new
ViewOpen(id) ==
    /\ Idle
    /\ budget > 0
    /\ budget' = budget - 1
    /\ view' = [open |-> TRUE, id |-> id, cursor |-> 0]
    /\ last' = "call"
    /\ pre' = EmptyMap
    /\ ret' = -1
    /\ UNCHANGED <<file, pos, header, footer, overallocation_policy, pc, iters, content>>

\* the view is dropped
ViewClose ==
    /\ pc = "idle"
    /\ view.open
    /\ view' = NoView
    /\ last' = "call"
    /\ ret' = -1
    /\ UNCHANGED <<file, pos, header, footer, overallocation_policy, pc, iters, content,
                   pre, budget>>

ViewSeek(whence, p) ==
    /\ ViewCall
    /\ \E r \in {view_seek(St, view, whence, p)} :
          /\ view' = [view EXCEPT !.cursor = r.cursor]
          /\ last' = IF r.res = "Ok" THEN "seek" ELSE "seek failed"
          /\ ret' = IF r.res = "Ok" THEN r.cursor ELSE -1
    /\ UNCHANGED <<file, pos, header, footer, content>>

ViewRead(n) ==
    /\ ViewCall
    /\ \E r \in {view_read(St, view, n)} :
          /\ view' = [view EXCEPT !.cursor = r.cursor]
          /\ pos' = r.pos
          /\ last' = IF r.res = "Ok" THEN "read" ELSE "read failed"
          /\ ret' = IF r.res = "Ok" THEN r.len ELSE -1
    /\ UNCHANGED <<file, header, footer, content>>

ViewWrite(buf) ==
    /\ ViewCall
    /\ \E r \in {view_write(St, overallocation_policy, view, buf)} :
          /\ InBounds(r.st)
          /\ Commit(r.st)
          /\ view' = [view EXCEPT !.cursor = r.cursor]
          /\ last' = r.path
          /\ ret' = IF r.res = "Ok" THEN Len(buf) ELSE -1
          /\ content' = IF r.res = "Ok" /\ buf # <<>>
                        THEN [content EXCEPT
                                ![view.id] = Stored(@.metadata, Overlay(@.bytes, view.cursor, buf))]
                        ELSE content

----------------------------------------------------------------------------
(* Cogtainer::defragment.  DefragBegin is the call up to the loop,         *)
(* DefragMove one iteration that relocates a block, DefragFail an          *)
(* iteration whose get_block fails, DefragFinish the iteration that finds  *)
(* no block behind the first hole, together with the footer move.          *)

\* the blocks the loop looks at: those behind empty_offset
BlocksAfter(st, empty_offset) ==
    {id \in DOMAIN st.footer.blocks : empty_offset < st.footer.blocks[id].file_offset}
\* the ids the loop may find: a block of the lowest file_offset behind
\* empty_offset; among blocks at one offset the iteration order of the HashMap
\* decides
found_block_id(st, empty_offset) ==
    {id \in BlocksAfter(st, empty_offset) :
        \A o \in BlocksAfter(st, empty_offset) :
            st.footer.blocks[id].file_offset <= st.footer.blocks[o].file_offset}

\* the state at the top of an iteration, after consolidate_empty_space
LoopTop == [St EXCEPT !.footer.empty_space = consolidate_empty_space(@)]
FirstHole(st) == SetMin(DOMAIN st.footer.empty_space)

Snapshot == [id \in DOMAIN footer.blocks |-> read(St, id)]

DefragBegin ==
    /\ Idle
    /\ budget > 0
    /\ budget' = budget - 1
    /\ pre' = Snapshot
    /\ iters' = 0
    /\ IF DOMAIN footer.empty_space = {}
       THEN /\ pc' = "idle"
            /\ last' = "defragment"
       ELSE /\ pc' = "defrag"
            /\ last' = "call"
    /\ ret' = -1
    /\ UNCHANGED <<file, pos, header, footer, overallocation_policy, view, content>>

\* one iteration: get_block, delete_block, insert_block of the chosen block
defragment_move(st, policy, id) ==
    LET g == get_block(st, id)
        d == delete_block([st EXCEPT !.pos = g.pos], id)
    IN insert_block(d.st, policy, id, g.metadata, g.bytes)

DefragMove ==
    /\ pc = "defrag"
    /\ DOMAIN footer.empty_space # {}
    /\ BlocksAfter(LoopTop, FirstHole(LoopTop)) # {}
    /\ \E top \in {LoopTop} : \E id \in found_block_id(top, FirstHole(top)) :
          /\ get_block(top, id).res = "Ok"
          /\ \E s \in {defragment_move(top, overallocation_policy, id)} : Commit(s)
    /\ iters' = Min(iters + 1, MaxIters)
    /\ UNCHANGED <<overallocation_policy, view, pc, last, content, pre, budget, ret>>

DefragFail ==
    /\ pc = "defrag"
    /\ DOMAIN footer.empty_space # {}
    /\ BlocksAfter(LoopTop, FirstHole(LoopTop)) # {}
    /\ \E top \in {LoopTop} : \E id \in found_block_id(top, FirstHole(top)) :
       \E g \in {get_block(top, id)} :
          /\ g.res # "Ok"
          /\ Commit([top EXCEPT !.pos = g.pos])
    /\ last' = "defragment failed"
    /\ pc' = "idle"
    /\ UNCHANGED <<overallocation_policy, view, iters, content, pre, budget, ret>>

\* the footer moves to the first hole, which leaves empty_space
defragment_finish(st) ==
    LET empty_offset == FirstHole(st)
    IN write_to([st EXCEPT !.footer.empty_space = MapDel(@, empty_offset),
                           !.header.footer_offset = empty_offset])

DefragFinish ==
    /\ pc = "defrag"
    /\ IF DOMAIN footer.empty_space = {}
       THEN UNCHANGED <<file, pos, header, footer>>
       ELSE /\ BlocksAfter(LoopTop, FirstHole(LoopTop)) = {}
            /\ \E s \in {defragment_finish(LoopTop)} : Commit(s)
    /\ pc' = "idle"
    /\ last' = "defragment"
    /\ UNCHANGED <<overallocation_policy, view, iters, content, pre, budget, ret>>

----------------------------------------------------------------------------
(* The file writes of the operations, in the order the code makes them.    *)
(* A write is [kind, off, bytes]: "data" is a write_all of payload bytes,  *)
(* "gap" the zero fill of [used_length, cursor) by the in-place streaming  *)
(* write, "zeros" the zero fill behind the payload, "footer" and "header"  *)
(* the two writes of ContainerFooter::write_to.                            *)

Write(kind, off, bytes) == [kind |-> kind, off |-> off, bytes |-> bytes]

\* the file after the writes ws, made one after the other
RECURSIVE ApplyWrites(_, _)
ApplyWrites(f, ws) ==
    IF ws = <<>> THEN f
    ELSE ApplyWrites(WriteBytes(f, Head(ws).off, Head(ws).bytes), Tail(ws))

\* a variant of the writes of write_to with the header written first
write_to_writes_header_first(st) ==
    LET bytes == Serialize(st.footer)
        h == [st.header EXCEPT !.footer_length = Len(bytes),
                               !.footer_checksum = calc_checksum(bytes)]
    IN <<Write("header", 0, HeaderBytes(h)),
         Write("footer", st.header.footer_offset, bytes)>>

\* the writes of ContainerFooter::write_to: the serialized footer at
\* footer_offset, then ContainerHeader::write_to at offset 0
write_to_writes(st) ==
    LET bytes == Serialize(st.footer)
        h == [st.header EXCEPT !.footer_length = Len(bytes),
                               !.footer_checksum = calc_checksum(bytes)]
    IN <<Write("footer", st.header.footer_offset, bytes),
         Write("header", 0, HeaderBytes(h))>>

\* the writes of a payload at off and of n zeros at zero_off, when there are any
data_writes(off, data, zero_off, n) ==
    (IF Len(data) > 0 THEN <<Write("data", off, data)>> ELSE <<>>)
        \o (IF n > 0 THEN <<Write("zeros", zero_off, Zeros(n))>> ELSE <<>>)

\* the writes of ContainerFooter::insert_block
insert_block_writes(st, policy, id, metadata, data) ==
    LET r == reserve_space(remove_old_block(st, id), Len(data), policy)
    IN (IF Len(data) > 0
        THEN data_writes(r.offset, data, r.offset + Len(data),
                         IF Len(data) < r.len THEN r.len - Len(data) ELSE 0)
        ELSE <<>>)
          \o write_to_writes(insert_block_data(st, policy, id, metadata, data))

\* the writes of ContainerFooter::insert_block_at
insert_block_at_writes(st, policy, id, offset, data) ==
    LET old_used_size == IF Has(st, id) THEN st.footer.blocks[id].used_length ELSE 0
        new_used_size == Max(old_used_size, offset + Len(data))
        r == reserve_space(remove_old_block(st, id), new_used_size, policy)
    IN (IF new_used_size > 0
        THEN data_writes(r.offset + offset, data, r.offset + offset + Len(data),
                         IF new_used_size < r.len THEN r.len - new_used_size ELSE 0)
        ELSE <<>>)
          \o write_to_writes(insert_block_at(st, policy, id, offset, data))

\* the writes of ContainerFooter::grow_block
grow_block_writes(st, policy, id, minimum_size) ==
    LET min_size == calculate(policy, minimum_size)
    IN IF Has(st, id) /\ st.footer.blocks[id].allocated_length >= min_size
       THEN <<>>
       ELSE
         LET g == get_block(st, id)
             data == IF g.res = "Ok" THEN g.bytes ELSE <<>>
             s1 == remove_old_block([st EXCEPT !.pos = g.pos], id)
             r == reserve_space(s1, min_size, PolicyNone)
             p1 == IF Len(data) > 0 THEN r.offset + Len(data) ELSE s1.pos
         IN data_writes(r.offset, data, p1,
                        IF Len(data) < r.len THEN r.len - Len(data) ELSE 0)
              \o write_to_writes(grow_block(st, policy, id, minimum_size).st)

\* the writes of InternalFile::write
view_write_writes(st, policy, v, buf) ==
    IF buf = <<>> \/ v.cursor + Len(buf) > CursorMax THEN <<>>
    ELSE IF ~Has(st, v.id)
    THEN insert_block_writes(st, policy, v.id, "Nil",
                             new_data(<<>>, v.cursor + Len(buf), v.cursor, buf))
    ELSE IF fits_in_alloc(st, v, buf)
    THEN LET desc == st.footer.blocks[v.id]
         IN (IF v.cursor > desc.used_length
             THEN <<Write("gap", desc.file_offset + desc.used_length,
                          Zeros(v.cursor - desc.used_length))>>
             ELSE <<>>)
              \o <<Write("data", desc.file_offset + v.cursor, buf)>>
              \o write_to_writes(write_in_place(st, v, buf).st)
    ELSE LET desc == st.footer.blocks[v.id]
             g == get_block(st, v.id)
         IN IF g.res # "Ok" THEN <<>>
            ELSE insert_block_writes([st EXCEPT !.pos = g.pos], policy, v.id, g.metadata,
                                     new_data(g.bytes, Max(desc.used_length, v.cursor + Len(buf)),
                                              v.cursor, buf))

\* the writes of one iteration of defragment that relocates the block id
defragment_move_writes(st, policy, id) ==
    LET g == get_block(st, id)
        d == delete_block([st EXCEPT !.pos = g.pos], id)
    IN insert_block_writes(d.st, policy, id, g.metadata, g.bytes)

----------------------------------------------------------------------------
(* The specifications.  Spec is a freshly created container under the      *)
(* calls of Cogtainer; SpecAlloc is the same container under the block     *)
(* operations of ContainerFooter as well, with the policy left at None;    *)
(* SpecView is the container under the calls of Cogtainer and of the       *)
(* streaming view; SpecAll is the container under all of these calls.      *)

Next ==
    \/ \E id \in Ids, m \in Metas : \E data \in Payloads(id) : InsertBlock(id, m, data)
    \/ \E id \in Ids : DeleteBlock(id)
    \/ Flush
    \/ \E m \in Metas : SetMetadata(m)
    \/ \E p \in Policies : SetOverallocationPolicy(p)
    \/ DefragBegin
    \/ DefragMove
    \/ DefragFail
    \/ DefragFinish

Spec == Init /\ [][Next]_vars

InitAlloc == create(MaxAllocCalls)

NextAlloc ==
    \/ \E id \in Ids, m \in Metas : InsertBlock(id, m, Payload(id, 1))
    \/ \E id \in Ids : DeleteBlock(id)
    \/ \E id \in Ids : InsertBlockAt(id, 1, Payload(id, 1))
    \/ \E id \in Ids, minimum_size \in {0, MaxGrow - 1, MaxGrow} : GrowBlock(id, minimum_size)
    \/ \E id \in Ids, m \in Metas : UpdateBlockMetadata(id, m)
    \/ DefragBegin
    \/ DefragMove
    \/ DefragFail
    \/ DefragFinish

SpecAlloc == InitAlloc /\ [][NextAlloc]_vars

\* the seeks made: SeekFrom::Start(p), SeekFrom::Current(p), SeekFrom::End(p)
Seeks ==
    ({"Start"} \X {0, 1, 2, CursorMax}) \cup ({"Current"} \X {-1, 1})
        \cup ({"End"} \X {-1, 0, 1})
\* the buffers written through the view, of a byte no insert_block stores
Bufs == {Payload(NumIds + 1, n) : n \in 0..MaxLen}

InitView == create(MaxViewCalls)

NextView ==
    \/ \E id \in Ids, m \in Metas : \E data \in Payloads(id) : InsertBlock(id, m, data)
    \/ \E id \in Ids : DeleteBlock(id)
    \/ \E p \in Policies : SetOverallocationPolicy(p)
    \/ \E id \in Ids : ViewOpen(id)
    \/ ViewClose
    \/ \E s \in Seeks : ViewSeek(s[1], s[2])
    \/ \E n \in 1..(MaxLen + 1) : ViewRead(n)
    \/ \E buf \in Bufs : ViewWrite(buf)
    \/ DefragBegin
    \/ DefragMove
    \/ DefragFail
    \/ DefragFinish

SpecView == InitView /\ [][NextView]_vars

InitAll == create(MaxAllCalls)

NextAll ==
    \/ \E id \in Ids, m \in Metas : \E data \in Payloads(id) : InsertBlock(id, m, data)
    \/ \E id \in Ids : DeleteBlock(id)
    \/ Flush
    \/ \E m \in Metas : SetMetadata(m)
    \/ \E p \in Policies : SetOverallocationPolicy(p)
    \/ \E id \in Ids : InsertBlockAt(id, 1, Payload(id, 1))
    \/ \E id \in Ids, minimum_size \in {0, MaxGrow - 1, MaxGrow} : GrowBlock(id, minimum_size)
    \/ \E id \in Ids, m \in Metas : UpdateBlockMetadata(id, m)
    \/ \E id \in Ids : ViewOpen(id)
    \/ ViewClose
    \/ \E s \in Seeks : ViewSeek(s[1], s[2])
    \/ \E n \in 1..(MaxLen + 1) : ViewRead(n)
    \/ \E buf \in Bufs : ViewWrite(buf)
    \/ DefragBegin
    \/ DefragMove
    \/ DefragFail
    \/ DefragFinish

SpecAll == InitAll /\ [][NextAll]_vars

\* the calls of SpecAlloc, one call fewer: the states crashes are taken from
InitCrash == create(MaxCrashCalls)

SpecCrash == InitCrash /\ [][NextAlloc]_vars

\* OverallocationPolicy::calculate under every kind of policy, on arguments
\* small, around the precision of f64 and at the end of the word
CalcAdds == {0, 1, WordMax}
CalcPcts == {0, 50, 100, 200}
CalcPolicies ==
    {PolicyNone}
    \cup {PolicyBytes(k) : k \in CalcAdds}
    \cup {PolicyPercentage(p) : p \in CalcPcts}
    \cup {PolicyPercentageCapped(p, k) : p \in CalcPcts, k \in CalcAdds}
CalcInputs == {0, 1, 2, 3, 2 ^ FloatBits + 1, WordMax - 1, WordMax}

InitCalc ==
    /\ file = Created.file
    /\ pos = Created.pos
    /\ header = Created.header
    /\ footer = Created.footer
    /\ overallocation_policy \in CalcPolicies
    /\ view = NoView
    /\ pc = "idle"
    /\ iters = 0
    /\ last = "call"
    /\ content = [id \in Ids |-> Absent]
    /\ pre = 0
    /\ budget = 0
    /\ ret = -1

Calculate(required_bytes) ==
    /\ \E o \in calculate_outcomes(overallocation_policy, required_bytes) :
          /\ last' = o.res
          /\ ret' = o.value
    /\ pre' = required_bytes
    /\ UNCHANGED <<file, pos, header, footer, overallocation_policy, view, pc,
                   iters, content, budget>>

NextCalc == \E required_bytes \in CalcInputs : Calculate(required_bytes)

SpecCalc == InitCalc /\ [][NextCalc]_vars

----------------------------------------------------------------------------
(* The claims *)

\* what read(id) should answer after the calls made so far
Expected(id) ==
    IF content[id].present
    THEN [res |-> "Ok", metadata |-> content[id].metadata, bytes |-> content[id].bytes]
    ELSE [res |-> "BlockNotFound", metadata |-> "Nil", bytes |-> <<>>]

\* the bytes of the extent (offset, length)
Extent(offset, length) == offset .. (offset + length - 1)
BlockExtent(id) ==
    Extent(footer.blocks[id].file_offset, footer.blocks[id].allocated_length)
HoleExtent(o) == Extent(o, footer.empty_space[o])
BlockRegion == HEADER_SIZE .. (header.footer_offset - 1)

\* C1 (Roundtrip): between calls, read(id) answers (m, b) for every id whose
\* last operation was insert(id, m, b), and BlockNotFound for every id never
\* inserted or deleted since.
C1_Roundtrip ==
    pc = "idle" => \A id \in Ids : read(St, id) = Expected(id)

\* C2 (Non-overlap): the allocations of two distinct blocks are disjoint,
\* every hole is disjoint from every allocation, and two distinct holes are
\* disjoint.
C2_NonOverlap ==
    /\ \A a, b \in DOMAIN footer.blocks :
          a # b => BlockExtent(a) \cap BlockExtent(b) = {}
    /\ \A o \in DOMAIN footer.empty_space : \A a \in DOMAIN footer.blocks :
          HoleExtent(o) \cap BlockExtent(a) = {}
    /\ \A o1, o2 \in DOMAIN footer.empty_space :
          o1 # o2 => HoleExtent(o1) \cap HoleExtent(o2) = {}

\* C3 (Full accounting): the holes and the block allocations lie inside
\* [68, footer_offset) and partition it: every byte of it is in exactly one
\* of them, and 68 + sum(allocated_length) + sum(hole lengths) = footer_offset.
C3_FullAccounting ==
    /\ \A a \in DOMAIN footer.blocks : BlockExtent(a) \subseteq BlockRegion
    /\ \A o \in DOMAIN footer.empty_space : HoleExtent(o) \subseteq BlockRegion
    /\ \A byte \in BlockRegion :
          Cardinality({a \in DOMAIN footer.blocks : byte \in BlockExtent(a)})
            + Cardinality({o \in DOMAIN footer.empty_space : byte \in HoleExtent(o)}) = 1
    /\ HEADER_SIZE + TotalAllocated(St) + TotalEmpty(St) = header.footer_offset

\* C4 (Hole-adjacency closure): between calls no hole of empty_space ends
\* where another hole begins.
C4_NoAdjacentHoles ==
    pc = "idle" =>
        \A o1, o2 \in DOMAIN footer.empty_space :
            o1 # o2 => o1 + footer.empty_space[o1] # o2

\* the footer write that commits the calls made so far has happened: a flush
\* would leave the header and the file as they are
Committed == flush(St) = St

\* C5 (Identity across reopen): between calls, an engine opened from the
\* bytes of the file opens, and its read answers as the engine's does, for
\* every id.  delete_block is documented to need the next footer write, so
\* the engines are compared once that write has happened.
C5_ReopenIdentity ==
    pc = "idle" /\ Committed =>
        /\ open(file).res = "Ok"
        /\ \A id \in Ids : read(open(file).st, id) = read(St, id)

\* C6 (Defragment preserves content): when defragment has returned Ok, the
\* ids are those present when it was called, and every one of them that read
\* as (metadata, bytes) then reads the same now.
C6_DefragPreserves ==
    last = "defragment" =>
        /\ DOMAIN footer.blocks = DOMAIN pre
        /\ \A id \in DOMAIN pre : pre[id].res = "Ok" => read(St, id) = pre[id]

\* C7 (Defragment postcondition): when defragment has returned Ok,
\* empty_space is empty and footer_offset = 68 + sum(allocated_length).
C7_DefragPostcondition ==
    last = "defragment" =>
        /\ DOMAIN footer.empty_space = {}
        /\ header.footer_offset = HEADER_SIZE + TotalAllocated(St)

\* the offset of the first hole at the top of an iteration of the loop
FirstHoleOffset ==
    IF DOMAIN footer.empty_space = {} THEN MaxFooterOffset + 1 ELSE FirstHole(LoopTop)

\* C8 (Defragment terminates): every iteration of the loop that relocates a
\* block strictly increases the offset of the first hole, so the loop ends.
C8_DefragProgress ==
    [][pc = "defrag" /\ pc' = "defrag" => FirstHoleOffset' > FirstHoleOffset]_vars

\* ContainerHeader::file_length
file_length(h) == h.footer_offset + h.footer_length

\* C9: footer_offset >= 68 in every state, and the length the engine reports
\* is footer_offset + footer_length.
C9_FooterAfterHeader ==
    /\ header.footer_offset >= HEADER_SIZE
    /\ file_length(header) = header.footer_offset + header.footer_length

\* C10: for every descriptor, allocated_length = 0 exactly when file_offset = 0.
C10_ZeroAllocZeroOffset ==
    \A id \in DOMAIN footer.blocks :
        footer.blocks[id].allocated_length = 0 <=> footer.blocks[id].file_offset = 0

StNext == [file |-> file', pos |-> pos', header |-> header', footer |-> footer']

\* C12 (Tail-zeroing): immediately after an insert of a non-empty payload b
\* the bytes of the file at [file_offset, file_offset + used_length) are b and
\* those at [file_offset + used_length, file_offset + allocated_length) are zero.
C12_TailZeroed ==
    [][\A id \in Ids, m \in Metas : \A data \in Payloads(id) \ {<<>>} :
          InsertBlock(id, m, data) =>
             LET d == footer'.blocks[id]
             IN /\ ReadBytes(file', d.file_offset, d.used_length) = data
                /\ \A j \in (d.used_length + 1)..d.allocated_length :
                      file'[d.file_offset + j] = Byte(0)]_vars

\* the values a byte of the file is changed to behind the engine's back
FlipValues == {Byte(b) : b \in 0..(NumIds + 1)}
\* the engine over the file with the byte at offset o changed to b
Flipped(o, b) == [St EXCEPT !.file = [file EXCEPT ![o + 1] = b]]

\* C13 (Block checksum guard): for every block with used_length > 0, after a
\* byte of [file_offset, file_offset + used_length) is changed to a different
\* value, read(id) fails with BlockChecksumError and returns no bytes, and every
\* other block that read Ok reads as before.
C13_BlockChecksumGuard ==
    \A id \in DOMAIN footer.blocks :
        footer.blocks[id].used_length > 0 =>
            \A o \in footer.blocks[id].file_offset ..
                        (footer.blocks[id].file_offset + footer.blocks[id].used_length - 1) :
                \A b \in FlipValues \ {file[o + 1]} :
                    /\ read(Flipped(o, b), id).res = "BlockChecksumError"
                    /\ read(Flipped(o, b), id).bytes = <<>>
                    /\ \A other \in DOMAIN footer.blocks \ {id} :
                          read(St, other).res = "Ok" =>
                              read(Flipped(o, b), other) = read(St, other)

\* the footer bytes the header on the file points at
FooterRegion(h) == h.footer_offset .. (h.footer_offset + h.footer_length - 1)

\* C14 (Footer checksum guard): after a byte of the serialized footer on the
\* file is changed to a different value, the header left as it is, reading the
\* footer and opening the container both fail with FooterChecksumError.
C14_FooterChecksumGuard ==
    LET h == header_read_from(file)
    IN h.res = "Ok" =>
         \A o \in FooterRegion(h.header) :
            o >= HEADER_SIZE =>
               \A b \in FlipValues \ {file[o + 1]} :
                  /\ footer_read_from(Flipped(o, b).file, h.header).res = "FooterChecksumError"
                  /\ open(Flipped(o, b).file).res = "FooterChecksumError"

\* a container that opens, with a footer of several bytes behind the header,
\* no longer opens once the last byte of the footer is changed
C14_Witness ==
    /\ header.footer_offset >= HEADER_SIZE
    /\ header.footer_length >= 2
    /\ DOMAIN footer.blocks # {}
    /\ open(file).res = "Ok"
    /\ open(Flipped(header.footer_offset + header.footer_length - 1, Byte(0)).file).res
          = "FooterChecksumError"

\* C15 (write_at): insert_block_at(id, offset, bytes) on a block that reads
\* (M, P) leaves used_length = max(|P|, offset + |bytes|) and metadata M, and
\* read(id) then answers M with P zero-extended and bytes overlaid at offset.
C15_WriteAt ==
    [][\A id \in Ids :
          /\ InsertBlockAt(id, 1, Payload(id, 1))
          /\ Has(St, id)
          /\ read(St, id).res = "Ok"
          => LET P == read(St, id).bytes
                 M == read(St, id).metadata
             IN /\ footer'.blocks[id].used_length = Max(Len(P), 1 + 1)
                /\ footer'.blocks[id].metadata = M
                /\ read(StNext, id) =
                      [res |-> "Ok", metadata |-> M, bytes |-> Overlay(P, 1, Payload(id, 1))]]_vars

\* the bytes on the file when insert_block is interrupted before its footer write
Crashed(id, m, data) == insert_block_data(St, overallocation_policy, id, m, data).file

\* C16 (Crash before footer write): between calls, when the file opens, the
\* file left by an insert interrupted after its payload reached the file and
\* before its footer write opens too, with the same footer, and every block of
\* that footer that read Ok reads the same.
C16_CrashBeforeFooter ==
    pc = "idle" /\ open(file).res = "Ok" =>
        \A id \in Ids, m \in Metas : \A data \in Payloads(id) \ {<<>>} :
            InBounds(insert_block(St, overallocation_policy, id, m, data)) =>
                /\ open(Crashed(id, m, data)).res = "Ok"
                /\ open(Crashed(id, m, data)).st.footer = open(file).st.footer
                /\ \A b \in DOMAIN open(file).st.footer.blocks :
                      read(open(file).st, b).res = "Ok" =>
                          read(open(Crashed(id, m, data)).st, b) = read(open(file).st, b)

\* what a full read of the view's block should answer after buf is written at
\* the cursor: the old payload (none when the block is missing) zero-extended,
\* buf overlaid, the old metadata (Nil when the block is missing)
AfterWrite(buf) ==
    [res |-> "Ok",
     metadata |-> IF Has(St, view.id) THEN read(St, view.id).metadata ELSE "Nil",
     bytes |-> Overlay(read(St, view.id).bytes, view.cursor, buf)]

\* C17 (Streaming write result): for a block that is missing or reads Ok, any
\* cursor and any non-empty buf, after a successful write of the view a full
\* read succeeds and answers AfterWrite(buf), on either path.
C17_StreamingWrite ==
    [][\A buf \in Bufs \ {<<>>} :
          /\ ViewWrite(buf)
          /\ ret' = Len(buf)
          /\ (Has(St, view.id) => read(St, view.id).res = "Ok")
          => read(StNext, view.id) = AfterWrite(buf)]_vars

\* the offsets of the file whose byte the step changed or added
Written == {o \in 0..(Len(file') - 1) : o >= Len(file) \/ file'[o + 1] # file[o + 1]}

\* C18 (In-place fast path frame): when the block exists with allocated_length
\* > 0 and cursor + |buf| <= allocated_length, a write of the view changes of
\* the footer only that block's used_length, to max(used_length, cursor +
\* |buf|), and checksum, leaves footer_offset, and changes no byte of the file
\* outside the block's allocation, the footer and the header.
C18_InPlaceFrame ==
    [][\A buf \in Bufs \ {<<>>} :
          ViewWrite(buf) /\ fits_in_alloc(St, view, buf) =>
             LET d == footer.blocks[view.id]
             IN /\ footer' = [footer EXCEPT
                                !.blocks[view.id].used_length =
                                    Max(d.used_length, view.cursor + Len(buf)),
                                !.blocks[view.id].checksum = footer'.blocks[view.id].checksum]
                /\ header'.footer_offset = header.footer_offset
                /\ \A o \in Written :
                      \/ o < HEADER_SIZE
                      \/ o \in Extent(d.file_offset, d.allocated_length)
                      \/ o \in FooterRegion(header')]_vars

\* an in-place write has extended the payload of the view's block up to the cursor
C18_Witness ==
    /\ last = "write in place"
    /\ view.open
    /\ view.id \in DOMAIN footer.blocks
    /\ footer.blocks[view.id].used_length = view.cursor
    /\ view.cursor > 1

\* the position a seek asks for, on a view whose block exists
SeekTarget(whence, p) ==
    CASE whence = "Start" -> p
      [] whence = "Current" -> view.cursor + p
      [] whence = "End" -> footer.blocks[view.id].used_length + p

\* C19 (Streaming seek): on a view whose block exists, a seek to a negative
\* position fails with an invalid-input error and leaves the cursor; a seek to
\* a position beyond used_length succeeds and sets the cursor there; neither
\* changes the footer, the header or the file.
C19_Seek ==
    [][\A s \in Seeks :
          ViewSeek(s[1], s[2]) /\ Has(St, view.id) =>
             /\ SeekTarget(s[1], s[2]) < 0 =>
                   /\ view_seek(St, view, s[1], s[2]).res = "InvalidInput"
                   /\ last' = "seek failed"
                   /\ view'.cursor = view.cursor
             /\ SeekTarget(s[1], s[2]) > footer.blocks[view.id].used_length =>
                   /\ last' = "seek"
                   /\ view'.cursor = SeekTarget(s[1], s[2])
             /\ StNext = St]_vars

\* the count a read of n bytes at the cursor should return
ReadCount(n) ==
    IF view.cursor >= footer.blocks[view.id].used_length THEN 0
    ELSE Min(footer.blocks[view.id].used_length - view.cursor, n)

\* C20 (Streaming cursor accounting): a successful write of buf returns |buf|
\* and advances the cursor by |buf|; a successful read into n bytes returns
\* min(used_length - cursor, n), 0 when the cursor is at or behind used_length,
\* and advances the cursor by what it returns; a failed read or write leaves
\* the cursor.
C20_CursorAccounting ==
    [][/\ \A buf \in Bufs :
             ViewWrite(buf) =>
                IF last' = "write failed"
                THEN view'.cursor = view.cursor
                ELSE ret' = Len(buf) /\ view'.cursor = view.cursor + Len(buf)
       /\ \A n \in 1..(MaxLen + 1) :
             ViewRead(n) =>
                IF last' = "read failed"
                THEN view'.cursor = view.cursor
                ELSE ret' = ReadCount(n) /\ view'.cursor = view.cursor + ReadCount(n)]_vars

\* a read at cursor 1 has returned the one byte left of a payload of two
C20_Witness ==
    /\ last = "read"
    /\ ret = 1
    /\ view.cursor = 2
    /\ footer.blocks[view.id].used_length = 2

\* the view after the step
ViewNext == view'

\* C21 (Streaming read at the boundaries): a read of the view with the cursor
\* at or behind used_length of an existing block returns 0 without error; a
\* read on an id that has no block fails instead of returning 0; after a
\* first non-empty write has created the block, reads no longer fail.
C21_ReadBoundaries ==
    [][/\ \A n \in 1..(MaxLen + 1) :
             ViewRead(n) =>
                IF Has(St, view.id)
                THEN view.cursor >= footer.blocks[view.id].used_length =>
                        last' = "read" /\ ret' = 0
                ELSE last' = "read failed" /\ ret' # 0
       /\ \A buf \in Bufs \ {<<>>} :
             ViewWrite(buf) /\ ~Has(St, view.id) /\ ret' = Len(buf) =>
                /\ Has(StNext, view.id)
                /\ \A n \in 1..(MaxLen + 1) :
                      view_read(StNext, ViewNext, n).res = "Ok"]_vars

\* a read behind the end of a block that a write of the view created has
\* returned 0
C21_Witness ==
    /\ last = "read"
    /\ ret = 0
    /\ view.open
    /\ Has(St, view.id)
    /\ footer.blocks[view.id].metadata = "Nil"
    /\ footer.blocks[view.id].used_length > 0
    /\ view.cursor >= footer.blocks[view.id].used_length

\* C22 (Empty streaming write): a write of the empty buffer through the view
\* returns 0 and changes nothing, at any cursor and whatever the block is: no
\* block is created, and the footer, the header, the bytes of the file and the
\* cursor are as before.
C22_EmptyWriteNoop ==
    [][ViewWrite(<<>>) =>
          /\ ret' = 0
          /\ footer' = footer
          /\ header' = header
          /\ file' = file
          /\ view' = view]_vars

\* an empty write was made behind offset 0 of a block that does not exist
C22_Witness ==
    /\ last = "write empty"
    /\ ret = 0
    /\ view.open
    /\ view.cursor > 0
    /\ ~Has(St, view.id)

\* C23 (BlockNotFound): delete(id) and read(id) on an id that is not present
\* answer BlockNotFound, and the failed delete leaves the blocks, empty_space,
\* the header and the bytes of the file as they were.
C23_BlockNotFound ==
    [][\A id \in Ids :
          ~Has(St, id) =>
             /\ read(St, id).res = "BlockNotFound"
             /\ delete_block(St, id).res = "BlockNotFound"
             /\ DeleteBlock(id) =>
                   /\ footer' = footer
                   /\ header' = header
                   /\ file' = file]_vars

\* a container with a block, a hole and an id that is not present, on which
\* delete of that id fails and returns the engine as it is
C23_Witness ==
    /\ pc = "idle"
    /\ budget < MaxCalls
    /\ DOMAIN footer.blocks # {}
    /\ DOMAIN footer.empty_space # {}
    /\ \E id \in Ids :
          /\ ~Has(St, id)
          /\ delete_block(St, id) = [res |-> "BlockNotFound", st |-> St]
          /\ read(St, id).res = "BlockNotFound"

\* the rejection of a header for the reason kind
InvalidHeader(kind) == [res |-> "InvalidHeader", kind |-> kind]

\* C24 (Header validation): open validates the header before it reads the
\* footer: a file whose first four bytes are not "DCCF" is rejected with
\* InvalidHeader(Magic), and a file with the magic whose version field is not
\* 1 is rejected with InvalidHeader(Version) instead of being opened.
C24_HeaderValidation ==
    /\ \A o \in 0..3 : \A b \in FlipValues \ {file[o + 1]} :
          open(Flipped(o, b).file) = InvalidHeader("Magic")
    /\ header_read_from(file).res = "Ok" =>
          \A b \in FlipValues \ {Byte(1)} :
             open(Flipped(4, b).file) = InvalidHeader("Version")

\* the holes of the engine that can take required bytes
Fits(required) == {o \in DOMAIN footer.empty_space : footer.empty_space[o] >= required}

\* what the hole path should leave of empty_space: the lowest fitting hole is
\* gone, and what it had beyond required is a hole right behind the allocation
HolesAfterReserve(required) ==
    LET es == footer.empty_space
        offset == SetMin(Fits(required))
        rest == [o \in DOMAIN es \ {offset} |-> es[o]]
    IN IF es[offset] > required
       THEN [o \in DOMAIN rest \cup {offset + required} |->
                IF o = offset + required THEN es[offset] - required ELSE rest[o]]
       ELSE rest

\* C25 (Hole path of reserve): whenever some hole has length >= required,
\* reserve(required, policy) returns the offset of the lowest such hole and
\* allocated_length = required, whatever the policy; it removes that hole and,
\* when the hole was longer, inserts the remainder as a hole at offset +
\* required; footer_offset is unchanged.  An insert of a new id with a payload
\* that fits a hole places the block so.
C25_ReserveHolePath ==
    [][/\ \A required \in 0..MaxGrow, policy \in Policies :
             Fits(required) # {} =>
                LET r == reserve_space(St, required, policy)
                IN /\ r.offset = SetMin(Fits(required))
                   /\ r.len = required
                   /\ r.st.footer.empty_space = HolesAfterReserve(required)
                   /\ r.st.header.footer_offset = header.footer_offset
       /\ \A id \in Ids, m \in Metas : \A data \in Payloads(id) \ {<<>>} :
             InsertBlock(id, m, data) /\ ~Has(St, id) /\ Fits(Len(data)) # {} =>
                /\ footer'.blocks[id].file_offset = SetMin(Fits(Len(data)))
                /\ footer'.blocks[id].allocated_length = Len(data)
                /\ footer'.empty_space = HolesAfterReserve(Len(data))
                /\ header'.footer_offset = header.footer_offset]_vars

\* under a policy that overallocates, a block of one byte lies in the front
\* of what was a longer hole, with the remainder as a hole right behind it
\* that the next reserve of one byte would take whole
C25_Witness ==
    /\ pc = "idle"
    /\ overallocation_policy = PolicyBytes(1)
    /\ \E id \in DOMAIN footer.blocks :
          /\ footer.blocks[id].allocated_length = 1
          /\ footer.blocks[id].file_offset >= HEADER_SIZE
          /\ footer.blocks[id].file_offset + 1 \in DOMAIN footer.empty_space
          /\ Fits(1) # {}
          /\ reserve_space(St, 1, overallocation_policy).len = 1

\* the allocation the two policies of the model ask for
Overallocated(policy, required) ==
    IF policy = PolicyNone THEN required ELSE required + policy.b

\* C26 (Append path of reserve): when no hole has length >= required, the
\* allocation is placed at the current footer_offset with allocated_length =
\* policy.calculate(required), footer_offset advances by exactly that, and
\* empty_space is unchanged; Bytes(8) and 8 bytes give 16.  An insert of a new
\* id with a payload that fits no hole places the block so.
C26_ReserveAppendPath ==
    [][/\ calculate(PolicyBytes(8), 8) = 16
       /\ \A required \in 0..MaxGrow, policy \in Policies :
             Fits(required) = {} =>
                LET r == reserve_space(St, required, policy)
                IN /\ r.offset = header.footer_offset
                   /\ r.len = Overallocated(policy, required)
                   /\ r.st.header.footer_offset = header.footer_offset + r.len
                   /\ r.st.footer.empty_space = footer.empty_space
       /\ \A id \in Ids, m \in Metas : \A data \in Payloads(id) \ {<<>>} :
             InsertBlock(id, m, data) /\ ~Has(St, id) /\ Fits(Len(data)) = {} =>
                /\ footer'.blocks[id].file_offset = header.footer_offset
                /\ footer'.blocks[id].allocated_length =
                      Overallocated(overallocation_policy, Len(data))
                /\ header'.footer_offset =
                      header.footer_offset + footer'.blocks[id].allocated_length
                /\ footer'.empty_space = footer.empty_space]_vars

\* an overallocated block of one byte ends where the footer begins, behind
\* another block, with no hole
C26_Witness ==
    /\ pc = "idle"
    /\ overallocation_policy = PolicyBytes(1)
    /\ DOMAIN footer.empty_space = {}
    /\ Cardinality(DOMAIN footer.blocks) = 2
    /\ \E id \in DOMAIN footer.blocks :
          /\ footer.blocks[id].used_length = 1
          /\ footer.blocks[id].allocated_length = 2
          /\ footer.blocks[id].file_offset > HEADER_SIZE
          /\ footer.blocks[id].file_offset + 2 = header.footer_offset

\* C27 (Delete and empty_space): delete(id) of an existing block removes its
\* descriptor and adds its extent to empty_space, which is then coalesced,
\* only when the block had an allocation; deleting a block with
\* allocated_length = 0 leaves empty_space as it was, so no hole has offset 0
\* or length 0.
C27_DeleteFreesAllocation ==
    [][\A id \in Ids :
          DeleteBlock(id) /\ Has(St, id) =>
             LET d == footer.blocks[id]
             IN /\ ~Has(StNext, id)
                /\ footer'.empty_space =
                      IF d.allocated_length > 0
                      THEN consolidate_empty_space(
                               MapPut(footer.empty_space, d.file_offset, d.allocated_length))
                      ELSE footer.empty_space
                /\ \A o \in DOMAIN footer'.empty_space :
                      o # 0 /\ footer'.empty_space[o] # 0]_vars

\* the step is a call, or the iteration of defragment, that ends with a
\* footer write
FooterWrite ==
    \/ Flush
    \/ \E m \in Metas : SetMetadata(m)
    \/ \E id \in Ids, m \in Metas : \E data \in Payloads(id) : InsertBlock(id, m, data)
    \/ DefragMove
    \/ DefragFinish /\ DOMAIN footer.empty_space # {}

\* C28 (Delete writes nothing): delete(id) leaves every byte of the file as it
\* was, so a reopen before any footer write still shows the block; the next
\* footer write (flush, insert, set_metadata, defragment's write) makes the
\* deletion and its hole visible after reopen: the file opens with the footer
\* of the engine.
C28_DeleteDeferred ==
    [][/\ \A id \in Ids :
             DeleteBlock(id) =>
                /\ file' = file
                /\ Has(St, id) /\ open(file).res = "Ok" /\ Has(open(file).st, id) =>
                      /\ ~Has(StNext, id)
                      /\ Has(open(file').st, id)
       /\ FooterWrite /\ ~Committed =>
             /\ open(file').res = "Ok"
             /\ open(file').st.footer = footer']_vars

\* the starts and the buffer lengths read_slice is asked for
SliceStarts == 0..(MaxGrow + 1)
SliceLens == 0..(MaxLen + 1)

\* what read_slice should answer on the engine st: nothing when the block has
\* no allocation or start is at or behind used_length, otherwise the
\* min(used_length - start, n) bytes of the file from file_offset + start
SliceExpected(st, id, start, n) ==
    LET d == st.footer.blocks[id]
        count == IF d.allocated_length = 0 \/ start >= d.used_length THEN 0
                 ELSE Min(d.used_length - start, n)
    IN [res |-> "Ok", len |-> count,
        bytes |-> [j \in 1..count |-> st.file[d.file_offset + start + j]]]

\* the answer of read_slice without the stream position
read_slice(st, id, start, n) ==
    LET g == get_block_slice(st, id, start, n)
    IN [res |-> g.res, len |-> g.len, bytes |-> g.bytes]

\* C29 (read_slice): read_slice(id, start, buf) returns 0 when
\* allocated_length = 0 or start >= used_length, otherwise it copies exactly
\* min(used_length - start, |buf|) bytes from file_offset + start and returns
\* that count; it reads no byte at or behind file_offset + used_length; it
\* does not compare with the stored checksum, so it succeeds on a payload that
\* was changed; it fails with BlockNotFound for a missing id.
C29_ReadSlice ==
    \A id \in Ids, start \in SliceStarts, n \in SliceLens :
        IF ~Has(St, id)
        THEN get_block_slice(St, id, start, n).res = "BlockNotFound"
        ELSE LET d == footer.blocks[id]
                 g == get_block_slice(St, id, start, n)
             IN /\ read_slice(St, id, start, n) = SliceExpected(St, id, start, n)
                /\ g.len > 0 => g.pos <= d.file_offset + d.used_length
                /\ \A o \in Extent(d.file_offset, d.used_length) :
                      \A b \in FlipValues \ {file[o + 1]} :
                          read_slice(Flipped(o, b), id, start, n) =
                              SliceExpected(Flipped(o, b), id, start, n)

\* a read of the view has returned a byte of a block whose payload no longer
\* hashes to its checksum
C29_Witness ==
    /\ last = "read"
    /\ ret >= 1
    /\ view.open
    /\ Has(St, view.id)
    /\ read(St, view.id).res = "BlockChecksumError"

\* the payload bytes of block b on the file f
PayloadOnFile(f, b) ==
    ReadBytes(f, footer.blocks[b].file_offset, footer.blocks[b].used_length)

\* C30 (update_block_metadata): on an existing block update_block_metadata(id,
\* m) changes only the metadata of that descriptor: its file_offset,
\* used_length, allocated_length and checksum, every other descriptor,
\* empty_space, footer_offset and every payload byte are as before; the
\* footer is persisted again, so the file opens with the new footer; and
\* read(id), which answered bytes before, answers (m, the same bytes).
C30_MetadataUpdateFrame ==
    [][\A id \in Ids, m \in Metas :
          UpdateBlockMetadata(id, m) /\ Has(St, id) =>
             /\ footer' = [footer EXCEPT !.blocks[id].metadata = m]
             /\ header'.footer_offset = header.footer_offset
             /\ \A b \in DOMAIN footer.blocks :
                   footer.blocks[b].allocated_length > 0 =>
                       PayloadOnFile(file', b) = PayloadOnFile(file, b)
             /\ open(file').res = "Ok"
             /\ open(file').st.footer = footer'
             /\ read(St, id).res = "Ok" =>
                   read(StNext, id) =
                      [res |-> "Ok", metadata |-> m, bytes |-> read(St, id).bytes]]_vars

\* C31 (set_metadata): set_metadata(v) replaces only the container-wide
\* metadata of the footer and persists at once: with no further call the file
\* opens with container metadata v, and every block descriptor, every hole and
\* every payload byte is as before.
C31_SetMetadata ==
    [][\A v \in Metas :
          SetMetadata(v) =>
             /\ footer' = [footer EXCEPT !.metadata = v]
             /\ \A b \in DOMAIN footer.blocks :
                   footer.blocks[b].allocated_length > 0 =>
                       PayloadOnFile(file', b) = PayloadOnFile(file, b)
             /\ open(file').res = "Ok"
             /\ open(file').st.footer.metadata = v
             /\ open(file').st.footer.blocks = footer.blocks
             /\ open(file').st.footer.empty_space = footer.empty_space]_vars

\* the place of a kind of write in the order of an operation
WriteRank(kind) ==
    CASE kind \in {"data", "gap"} -> 1
      [] kind = "zeros" -> 2
      [] kind = "footer" -> 3
      [] kind = "header" -> 4

\* the writes ws are those of the step, they come as payload bytes, zero
\* fill, footer, header, and they end with one footer at the new
\* footer_offset and the header that describes it
WritesInOrder(ws) ==
    /\ ApplyWrites(file, ws) = file'
    /\ \A i, j \in 1..Len(ws) : i < j => WriteRank(ws[i].kind) <= WriteRank(ws[j].kind)
    /\ ws # <<>> =>
          LET ft == ws[Len(ws) - 1]
              hd == ws[Len(ws)]
          IN /\ ft.kind = "footer" /\ hd.kind = "header"
             /\ \A i \in 1..(Len(ws) - 2) : WriteRank(ws[i].kind) < 3
             /\ ft.off = header'.footer_offset
             /\ Len(ft.bytes) = header'.footer_length
             /\ calc_checksum(ft.bytes) = header'.footer_checksum
             /\ hd.off = 0
             /\ hd.bytes = HeaderBytes(header')

\* C32 (Write ordering): within every mutating operation (insert, write_at,
\* grow_block, the streaming write on both paths, each iteration of
\* defragment) the file writes come in the order payload bytes, tail zero
\* fill, serialized footer at footer_offset, header at offset 0; the header
\* is never written before the footer it describes and no payload byte is
\* written after the footer write of the operation.
C32_WriteOrdering ==
    [][/\ \A id \in Ids, m \in Metas : \A data \in Payloads(id) :
             InsertBlock(id, m, data) =>
                WritesInOrder(insert_block_writes(St, overallocation_policy, id, m, data))
       /\ \A id \in Ids :
             InsertBlockAt(id, 1, Payload(id, 1)) =>
                WritesInOrder(insert_block_at_writes(St, overallocation_policy, id, 1,
                                                     Payload(id, 1)))
       /\ \A id \in Ids, minimum_size \in {0, MaxGrow - 1, MaxGrow} :
             GrowBlock(id, minimum_size) =>
                WritesInOrder(grow_block_writes(St, overallocation_policy, id, minimum_size))
       /\ \A buf \in Bufs :
             ViewWrite(buf) =>
                WritesInOrder(view_write_writes(St, overallocation_policy, view, buf))
       /\ DefragMove =>
             \E id \in found_block_id(LoopTop, FirstHole(LoopTop)) :
                /\ StNext = defragment_move(LoopTop, overallocation_policy, id)
                /\ WritesInOrder(defragment_move_writes(LoopTop, overallocation_policy, id))]_vars

\* an in-place write of the view has zeroed the gap in front of the cursor
\* of a block grown without payload and written its buffer behind the gap
C32_Witness ==
    /\ last = "write in place"
    /\ view.open
    /\ Has(St, view.id)
    /\ view.cursor = 3
    /\ footer.blocks[view.id].used_length = 3
    /\ footer.blocks[view.id].file_offset >= HEADER_SIZE
    /\ PayloadOnFile(file, view.id) = <<Byte(0), Byte(0), Byte(NumIds + 1)>>

\* the stream positions the engine is run from: the start of the file, the
\* end of the header, the footer
Positions == {0, HEADER_SIZE, header.footer_offset}
\* the engine with its stream at position p
At(p) == [St EXCEPT !.pos = p]
\* two runs have left the same file bytes, header and footer
SameBytes(a, b) == a.file = b.file /\ a.header = b.header /\ a.footer = b.footer

\* C33 (Position independence): every byte the engine writes goes to an
\* offset it computes, so two runs of one operation (insert, write_at,
\* grow_block, read, streaming write, flush) from states that differ only in
\* the stream position of the file leave the same file bytes and descriptors;
\* the footer and header writes restore the stream position they found.
C33_PositionIndependence ==
    \A p \in Positions :
        /\ \A id \in Ids, m \in Metas : \A data \in Payloads(id) :
              SameBytes(insert_block(At(p), overallocation_policy, id, m, data),
                        insert_block(St, overallocation_policy, id, m, data))
        /\ \A id \in Ids :
              /\ SameBytes(insert_block_at(At(p), overallocation_policy, id, 1, Payload(id, 1)),
                           insert_block_at(St, overallocation_policy, id, 1, Payload(id, 1)))
              /\ read(At(p), id) = read(St, id)
              /\ \A minimum_size \in {0, MaxGrow - 1, MaxGrow} :
                    SameBytes(grow_block(At(p), overallocation_policy, id, minimum_size).st,
                              grow_block(St, overallocation_policy, id, minimum_size).st)
        /\ view.open =>
              \A buf \in Bufs :
                 SameBytes(view_write(At(p), overallocation_policy, view, buf).st,
                           view_write(St, overallocation_policy, view, buf).st)
        /\ SameBytes(flush(At(p)), flush(St))
        /\ flush(At(p)).pos = p

\* the policies the engine may be set to, one of each kind
AllPolicies ==
    Policies \cup {PolicyPercentage(100), PolicyPercentageCapped(100, 1)}
\* no block of b has a larger allocation than it has in a
NoGrowth(a, b) ==
    /\ DOMAIN b.footer.blocks = DOMAIN a.footer.blocks
    /\ \A id \in DOMAIN a.footer.blocks :
          b.footer.blocks[id].allocated_length <= a.footer.blocks[id].allocated_length
    /\ b.header.footer_offset <= a.header.footer_offset

\* C34 (Defragment never grows allocations): under every overallocation
\* policy, each step of defragment (the relocation of a block, the move of
\* the footer) leaves every block with an allocation no larger than before,
\* places the relocated block in a hole and never at footer_offset, and
\* leaves header.footer_offset no larger than before.
C34_DefragNeverGrows ==
    (pc = "defrag" /\ DOMAIN footer.empty_space # {}) =>
        IF BlocksAfter(LoopTop, FirstHole(LoopTop)) # {}
        THEN \A id \in found_block_id(LoopTop, FirstHole(LoopTop)) :
                get_block(LoopTop, id).res = "Ok" =>
                   \A policy \in AllPolicies :
                      LET s == defragment_move(LoopTop, policy, id)
                      IN /\ NoGrowth(St, s)
                         /\ s.footer.blocks[id].file_offset < header.footer_offset
        ELSE NoGrowth(St, defragment_finish(LoopTop))

\* the value the text gives for calculate, in exact arithmetic
calculate_claimed(policy, N) ==
    CASE policy.kind = "None" -> N
      [] policy.kind = "Bytes" -> SatAdd(N, policy.b)
      [] policy.kind = "Percentage" -> SatAdd(N, (N * policy.pct) \div 100)
      [] policy.kind = "PercentageCapped" ->
            SatAdd(N, Min((N * policy.pct) \div 100, policy.b))

\* C35 (calculate): None gives N, Bytes(k) gives N + k, Percentage(p) gives
\* N + floor(N * p), PercentageCapped(p, max_add) gives
\* N + min(floor(N * p), max_add); the result is at least N and saturates at
\* the largest value of the word, it neither overflows nor wraps.
C35_Calculate ==
    last \in {"calculate", "calculate panicked"} =>
        /\ last = "calculate"
        /\ ret = calculate_claimed(overallocation_policy, pre)
        /\ ret >= pre
        /\ ret <= WordMax

\* block id has no spare allocation and no hole below it can take its payload
SameSizeCase(id) ==
    /\ Has(St, id)
    /\ footer.blocks[id].allocated_length = footer.blocks[id].used_length
    /\ \A o \in DOMAIN footer.empty_space :
          o < footer.blocks[id].file_offset =>
             footer.empty_space[o] < footer.blocks[id].used_length
\* the replacement s of block id left the layout as it was
InPlace(id, s) ==
    /\ s.footer.blocks[id].file_offset = footer.blocks[id].file_offset
    /\ s.footer.blocks[id].allocated_length = footer.blocks[id].allocated_length
    /\ s.footer.empty_space = footer.empty_space
    /\ s.header.footer_offset = header.footer_offset
\* insert_block of a payload as long as the one block id holds
Replaced(id, m, policy) ==
    insert_block(St, policy, id, m, Payload(id, footer.blocks[id].used_length))

\* C36 (Same-size replacement is in place): replacing a block whose
\* allocated_length equals its used_length by a payload of the same length,
\* when no hole at a lower offset is large enough, leaves its file_offset and
\* allocated_length, empty_space and header.footer_offset unchanged.
C36_SameSizeInPlace ==
    \A id \in Ids : SameSizeCase(id) =>
        \A m \in Metas, policy \in AllPolicies : InPlace(id, Replaced(id, m, policy))

\* what read(id) answers before grow_block: a missing id counts as Nil, empty
ReadBeforeGrow(id) ==
    IF Has(St, id) THEN read(St, id)
    ELSE [res |-> "Ok", metadata |-> "Nil", bytes |-> <<>>]
\* the bytes of block id between its used_length and its allocated_length
BlockTail(st, id) ==
    ReadBytes(st.file,
              st.footer.blocks[id].file_offset + st.footer.blocks[id].used_length,
              st.footer.blocks[id].allocated_length - st.footer.blocks[id].used_length)

\* C37 (grow_block): grow_block(id, minimum_size) leaves the block with an
\* allocated_length at least its previous one and at least
\* policy.calculate(minimum_size), returns that allocated_length, leaves
\* read(id) as it was (Nil and empty for an id that was missing), and leaves
\* the tail of the block behind used_length zero.
C37_GrowBlock ==
    \A id \in Ids, minimum_size \in {0, MaxGrow - 1, MaxGrow}, policy \in Policies :
        LET g == grow_block(St, policy, id, minimum_size)
            b == g.st.footer.blocks[id]
        IN /\ Has(g.st, id)
           /\ Has(St, id) => b.allocated_length >= footer.blocks[id].allocated_length
           /\ b.allocated_length >= calculate(policy, minimum_size)
           /\ g.ret = b.allocated_length
           /\ read(g.st, id) = ReadBeforeGrow(id)
           /\ BlockTail(g.st, id) = Zeros(b.allocated_length - b.used_length)

\* the step is an operation that returned after its footer write: a call of
\* Cogtainer or ContainerFooter, a write of the view that stored bytes, or a
\* step of defragment that writes
PersistingStep ==
    \/ FooterWrite
    \/ \E id \in Ids : InsertBlockAt(id, 1, Payload(id, 1))
    \/ \E id \in Ids, m \in Metas : UpdateBlockMetadata(id, m)
    \/ \E id \in Ids, minimum_size \in {0, MaxGrow - 1, MaxGrow} :
          /\ GrowBlock(id, minimum_size)
          /\ ~(Has(St, id) /\ footer.blocks[id].allocated_length
                                 >= calculate(overallocation_policy, minimum_size))
    \/ \E buf \in Bufs \ {<<>>} : ViewWrite(buf) /\ ret' = Len(buf)

\* C38 (Every completed persisting operation leaves an openable file): when
\* an operation that persists has returned Ok, the header stored at offset 0
\* is the engine's header, its footer_offset, footer_length and
\* footer_checksum match the footer bytes on the file, and open succeeds with
\* a footer equal to the engine's footer at that write.
C38_OpenableAfterWrite ==
    [][PersistingStep =>
          /\ header_read_from(file').res = "Ok"
          /\ header_read_from(file').header = header'
          /\ open(file').res = "Ok"
          /\ open(file').st.footer = footer']_vars

\* the write lists of the mutating operations that may be called now
OperationWrites ==
    {insert_block_writes(St, overallocation_policy, id, m, data) :
        id \in Ids, m \in Metas, data \in Payloads(1) \cup Payloads(2)}
    \cup {insert_block_at_writes(St, overallocation_policy, id, 1, Payload(id, 1)) : id \in Ids}
    \cup {grow_block_writes(St, overallocation_policy, id, minimum_size) :
             id \in Ids, minimum_size \in {0, MaxGrow - 1, MaxGrow}}
    \cup {write_to_writes(update_block_metadata(St, id, m)) : id \in Ids, m \in Metas}
    \cup {write_to_writes([St EXCEPT !.footer.metadata = v]) : v \in Metas \cup {"Nil"}}
    \cup (IF view.open
          THEN {view_write_writes(St, overallocation_policy, view, buf) : buf \in Bufs}
          ELSE {})
    \cup (IF pc = "defrag" /\ DOMAIN footer.empty_space # {}
          THEN IF BlocksAfter(LoopTop, FirstHole(LoopTop)) # {}
               THEN {defragment_move_writes(LoopTop, overallocation_policy, id) :
                       id \in {b \in found_block_id(LoopTop, FirstHole(LoopTop)) :
                                 get_block(LoopTop, b).res = "Ok"}}
               ELSE {write_to_writes(defragment_finish(LoopTop))}
          ELSE {})
\* the files left when execution stops between two writes of an operation
CrashFiles ==
    UNION {{ApplyWrites(file, SubSeq(ws, 1, k)) : k \in 1..(Len(ws) - 1)} :
             ws \in OperationWrites}
\* the bytes f do not open, or they open with the footer held and every read
\* fails or answers the metadata of the block's descriptor in that footer and
\* bytes of which the descriptor holds the length and the checksum (no bytes
\* for a descriptor of allocated_length 0, whose checksum is never compared)
Detected(f, held) ==
    LET o == open(f)
    IN \/ o.res \in {"InvalidHeader", "FooterChecksumError"}
       \/ /\ o.res = "Ok"
          /\ o.st.footer = held
          /\ \A id \in Ids :
                LET r == read(o.st, id)
                IN \/ r.res \in {"BlockChecksumError", "BlockNotFound"}
                   \/ /\ r.res = "Ok"
                      /\ id \in DOMAIN held.blocks
                      /\ r.metadata = held.blocks[id].metadata
                      /\ IF held.blocks[id].allocated_length = 0
                         THEN r.bytes = <<>>
                         ELSE /\ Len(r.bytes) = held.blocks[id].used_length
                              /\ calc_checksum(r.bytes) = held.blocks[id].checksum

StartsFor(x) ==
    {St} \cup {[St EXCEPT !.pos = get_block(St, z).pos] : z \in Ids \ {x}}
\* block y reads on s as on the engine and has the descriptor it has there
Undisturbed(y, s) ==
    /\ Has(s, y)
    /\ read(s, y) = read(St, y)
    /\ s.footer.blocks[y].file_offset = footer.blocks[y].file_offset
    /\ s.footer.blocks[y].used_length = footer.blocks[y].used_length
    /\ s.footer.blocks[y].allocated_length = footer.blocks[y].allocated_length
    /\ s.footer.blocks[y].checksum = footer.blocks[y].checksum

\* C40 (Operations on one block never disturb another): between calls, for
\* two distinct ids x and y with y present, after insert, delete, write_at,
\* update_block_metadata, grow_block or a streaming write on x, possibly
\* preceded by a read of another block, read(y) answers as before and the
\* file_offset, used_length, allocated_length and checksum of y are unchanged.
C40_OtherBlocksUndisturbed ==
    pc = "idle" =>
        \A x \in Ids, y \in DOMAIN footer.blocks :
            x # y =>
               \A start \in StartsFor(x) :
                  /\ \A m \in Metas, data \in Payloads(x) :
                        Undisturbed(y, insert_block(start, overallocation_policy, x, m, data))
                  /\ Undisturbed(y, delete_block(start, x).st)
                  /\ Undisturbed(y, insert_block_at(start, overallocation_policy, x, 1,
                                                    Payload(x, 1)))
                  /\ \A m \in Metas : Undisturbed(y, update_block_metadata(start, x, m))
                  /\ \A minimum_size \in {0, MaxGrow - 1, MaxGrow} :
                        Undisturbed(y, grow_block(start, overallocation_policy, x,
                                                  minimum_size).st)
                  /\ (view.open /\ view.id = x) =>
                        \A buf \in Bufs :
                           Undisturbed(y, view_write(start, overallocation_policy, view,
                                                     buf).st)

====
